---- MODULE Spec2Model ----
(***************************************************************************)
(* Forex signal bot.  Lease manager (src/instance_manager.py): the file     *)
(* bot_instance.lock shared by several processes, at the granularity of    *)
(* the file operations each method performs.  Bot (src/bot_handlers.py):   *)
(* the coroutines of one process's event loop - setup_polling, the         *)
(* lock_maintainer and auto_scanner tasks, the command handlers - at the   *)
(* granularity of the code between two awaits.                             *)
(*                                                                         *)
(* The file system is modelled by what the operations of the code do:      *)
(*   open(path, 'w')   creates the file when absent, TRUNCATES it at once  *)
(*                     when present, and yields a descriptor on the inode  *)
(*   portalocker.lock  flock on the descriptor's inode (LOCK_NB fails with *)
(*                     LockException when another descriptor holds it;     *)
(*                     without LOCK_NB it blocks)                          *)
(*   write/flush       one write of the whole (small) json record          *)
(*   os.remove(path)   unlinks the name; descriptors keep the inode        *)
(*   json.load         fails on a zero-length file                         *)
(* Time is the shared clock get_nigeria_time(), in abstract units.         *)
(***************************************************************************)
EXTENDS Integers, Sequences, FiniteSets, TLC

\* ---------------------------------------------------------------- bounds
NProcs == 2
MaxTime == 3
\* the lease durations callers pass (timeout=60 is the default of
\* acquire_lock, timeout=300 what the bot passes), in abstract time units
ShortLease == 1
LongLease == 2

Procs == 1..NProcs
Inodes == 1..(NProcs + 1)
Timeouts == {ShortLease, LongLease}
NoFile == 0
NoProc == 0

\* ------------------------------------------------- constants of the bot
min_confidence == 70
manual_confidence_threshold == 50
AutoScannerConfidence == 75
SetupAttempts == 15

\* the pairs analysed, in the order of all_pairs (a prefix of the ten)
ALL_PAIRS == <<"EUR/USD", "USD/JPY", "GBP/USD", "AUD/USD">>
Pairs == {ALL_PAIRS[i] : i \in 1..Len(ALL_PAIRS)}
\* final_confidence values an analysis yields, around the three thresholds
Confidences == {40, 50, 70, 75}
\* result.confidence of one analyze_single_pair call; NoResult when it
\* returned None or raised
NoResult == 0
Analyses == [Pairs -> Confidences \cup {NoResult}]
\* what get_active_pairs can return: ALL_PAIRS filtered by trading hours
ActiveLists ==
    {SelectSeq(ALL_PAIRS, LAMBDA x : x \in S) : S \in SUBSET Pairs}

\* self.current_signal = None
NoSignal ==
    [pair |-> "none", signal_type |-> "none", confidence |-> 0,
     is_forced |-> FALSE]
\* Signal(pair=..., signal_type=..., confidence=..., is_forced=False)
Signal(pr, st, cf) ==
    [pair |-> pr, signal_type |-> st, confidence |-> cf,
     is_forced |-> FALSE]
\* stats['last_auto_scan'] = None
Never == -1
\* the time at which local midnight falls, and the most Signals counted
\* in stats['signals_today']
Midnight == 1
MaxSignalsToday == 2

\* ------------------------------------------------------------ lock record
\* lock_data as written by json.dumps; instance_id = NoProc stands for a
\* zero-length (truncated) file, which json.load cannot parse
Empty == [instance_id |-> NoProc, timestamp |-> 0, expires |-> 0]
\* what a reader gets when the path does not exist
Absent == [instance_id |-> -1, timestamp |-> 0, expires |-> 0]

LockData(p, t, timeout) ==
    [instance_id |-> p, timestamp |-> t, expires |-> t + timeout]

VARIABLES
    now,                  \* get_nigeria_time()
    PORTALOCKER_AVAILABLE,\* module flag, fixed when the module is imported
    path,                 \* inode the name bot_instance.lock refers to, or NoFile
    content,              \* content[i]: the record stored in inode i
    alive,                \* alive[p]: the process is running
    pc,                   \* pc[p]: position of p inside a manager method
    lock_held,            \* self.lock_held
    lock_file,            \* self.lock_file: inode of the open descriptor, or NoFile
    flocked,              \* p's descriptor holds the flock of its inode
    f,                    \* the descriptor of a `with open(path, 'w') as f` block
    lock_data,            \* the record a pending write will store
    timeout,              \* the timeout argument of the call in progress
    result,               \* what the last acquire_lock call returned
    call_pre,             \* history: the record at the path, and the time,
                          \* when the call p is inside began; Interfered
                          \* once another process has taken a step since
    lease_expires,        \* history: 'expires' of the record p wrote last
                          \* (0 once p has released)
    is_primary_instance,  \* self.is_primary_instance
    running,              \* self.running
    auto_scan_interval,   \* self.auto_scan_interval
    main,                 \* position of main(): setup_polling, polling, stop
    attempt,              \* loop variable of setup_polling (0 outside the loop)
    wait_time,            \* local of setup_polling: the last sleep, in half
                          \* seconds (0 outside the loop)
    maintainer,           \* position of the lock_maintainer task
    scanner,              \* position of the auto_scanner task
    nigeria_time,         \* local of auto_scanner: time of the iteration that
                          \* is scanning (0 otherwise)
    current_signal,       \* self.current_signal
    entry_time,           \* when the Signal in the registry was stored
                          \* (Never without one); its own entry_time, taken
                          \* while it was built, is no later
    last_auto_scan,       \* self.stats['last_auto_scan']
    handler,              \* the update handler in progress, "idle" if none
    pair,                 \* local of cmd_analyze / cmd_fast
    scan_pc,              \* position of one scan_active_pairs(_manual) call
    scan_threshold,       \* min_confidence or manual_confidence_threshold
    pairs_to_scan,        \* local of the scan: get_active_pairs(nigeria_time)
    task_result,          \* what analyze_single_pair yields for each pair
    batch_start,          \* loop variable i of the scan (counted from 1)
    completed,            \* tasks of the batch that are done, in the order
                          \* in which they completed
    all_signals,          \* local of the scan
    best_signal,          \* what the scan returns
    reply,                \* the message the handler of /auto or /manual is
                          \* replying with ("none" outside)
    scanned,              \* pairs_to_scan of the scan that handler awaited
                          \* (<<>> if it awaited none)
    analysis_pc,          \* position of one analyze_single_pair(_manual) call
    analysed_pair,        \* its argument `pair`
    settings,             \* self.settings: the pips the call reads
    ai_analyzer,          \* self.ai_analyzer: None, without client, with client
    technicals,           \* what tech_analyzer.analyze returned
    response,             \* what the chat completion request yielded
    ai_analysis,          \* local of the call: the dict of the AI scorer
    ai_calls,             \* number of ai_analyzer.analyze_pair invocations
    analysis_result,      \* what the call returned
    signal_lock,          \* self.signal_lock: the task of p that holds it,
                          \* "none" when it is free
    signals_today,        \* self.stats['signals_today']
    manual_threshold,     \* settings['manual_confidence_threshold']
    settings_history      \* len(settings['settings_history'])

lease_vars == <<now, PORTALOCKER_AVAILABLE, path, content, alive, pc, lock_held,
                lock_file, flocked, f, lock_data, timeout, result, call_pre,
                lease_expires>>

life_vars == <<is_primary_instance, running, auto_scan_interval, main, attempt,
               wait_time, maintainer>>
scan_vars == <<scanner, nigeria_time, current_signal, entry_time,
               last_auto_scan>>
cmd_vars == <<handler, pair>>
batch_vars == <<scan_pc, scan_threshold, pairs_to_scan, task_result,
                batch_start,
                completed, all_signals, best_signal>>
reply_vars == <<reply, scanned>>
analysis_vars == <<analysis_pc, analysed_pair, settings, ai_analyzer,
                   technicals, response, ai_analysis, ai_calls,
                   analysis_result>>
mutex_vars == <<signal_lock>>
stats_vars == <<signals_today>>
settings_vars == <<manual_threshold, settings_history>>
bot_vars == <<life_vars, scan_vars, cmd_vars, batch_vars, reply_vars,
              analysis_vars,
                   mutex_vars, stats_vars, settings_vars>>

vars == <<lease_vars, bot_vars>>

\* ------------------------------------------------------------- file system
ReadRecord == IF path = NoFile THEN Absent ELSE content[path]

Parsable(rec) == rec.instance_id \in Procs

Referenced(i, pth, lf, ff) ==
    \/ pth = i
    \/ \E q \in Procs : lf[q] = i \/ ff[q] = i

\* an inode nobody refers to any more is freed: its content is gone
Reclaim(c, pth, lf, ff) ==
    [i \in Inodes |-> IF Referenced(i, pth, lf, ff) THEN c[i] ELSE Empty]

FreshInode ==
    CHOOSE i \in Inodes :
        /\ ~Referenced(i, path, lock_file, f)
        /\ \A j \in Inodes : ~Referenced(j, path, lock_file, f) => i <= j

\* the inode open(path, 'w') yields: the existing one, or a new one
OpenedInode == IF path = NoFile THEN FreshInode ELSE path

FlockFree(i) == \A q \in Procs : ~(lock_file[q] = i /\ flocked[q])

\* now - lock_time > timedelta(seconds=timeout)
IsStale(rec, tmo) == now - rec.timestamp > tmo

\* ---------------------------------------------------------- check_lock_status
check_lock_status ==
    IF path # NoFile
    THEN IF Parsable(content[path])
         THEN [locked |-> TRUE, instance_id |-> content[path].instance_id,
               expires |-> content[path].expires,
               is_expired |-> now > content[path].expires, error |-> FALSE]
         ELSE [locked |-> FALSE, instance_id |-> NoProc, expires |-> 0,
               is_expired |-> FALSE, error |-> TRUE]
    ELSE [locked |-> FALSE, instance_id |-> NoProc, expires |-> 0,
          is_expired |-> FALSE, error |-> FALSE]

is_primary(p) ==
    check_lock_status.locked /\ check_lock_status.instance_id = p

\* ------------------------------------------------- history of a call
Snapshot(rec) == [rec |-> rec, at |-> now]
NoCall == [rec |-> Absent, at |-> -1]
Interfered == [rec |-> Absent, at |-> -2]

InCall(q) == pc[q] \notin {"idle", "dead"}

\* conjoined to every step of a manager method by process p
History(p) ==
    call_pre' = [q \in Procs |->
        IF q = p
        THEN IF pc'[p] = "idle" THEN NoCall
             ELSE IF pc[p] = "idle" THEN Snapshot(ReadRecord) ELSE call_pre[p]
        ELSE IF InCall(q) THEN Interfered ELSE call_pre[q]]

\* ------------------------------------- one analysis of one pair
\* lines 2072 and 2182: technicals.get('confidence', 0) < 30
baseline_confidence == 30
\* lines 2087 and 2197: ai_analysis.get('confidence', 50) ... else 50
default_ai_confidence == 50

\* the pairs whose analysis is followed: one quoted to four decimals, one
\* JPY pair, and gold
AnalysedPairs == {"EUR/USD", "USD/JPY", "XAU/USD"}

\* the parts of a pair or of a direction that Python's `in` can find in it
Words(str) ==
    CASE str = "EUR/USD" -> {"EUR", "USD"}
      [] str = "USD/JPY" -> {"USD", "JPY"}
      [] str = "XAU/USD" -> {"XAU", "USD"}
      [] str = "STRONG_BUY" -> {"STRONG", "BUY"}
      [] str = "STRONG_SELL" -> {"STRONG", "SELL"}
      [] OTHER -> {str}

\* `word in str`
Contains(str, word) == word \in Words(str)

\* the value of a key of a JSON object: no such key, a number, or text
NoValue == [kind |-> "absent", number |-> 0]
Number(n) == [kind |-> "number", number |-> n]
Text == [kind |-> "text", number |-> 0]

\* prices are counted in millionths (1.10000 is 1100000), confidences in
\* percent, final confidences in tenths of a percent
EntryPrices == {1100000, 151200000, 1085347}

\* tech_analyzer.analyze: {} or a dict with direction, confidence, price
NoTechnicals == [direction |-> "", confidence |-> 0, price |-> 0]
TechnicalResults ==
    {NoTechnicals} \cup
    [direction : {"STRONG_BUY", "SELL", "NEUTRAL"},
     confidence : {0, 20, 30, 60, 100},
     price : EntryPrices]

\* a Python float: a number, nan, or an infinity with the sign v
Float(n) == [kind |-> "num", v |-> n]
nan == [kind |-> "nan", v |-> 0]
inf == [kind |-> "inf", v |-> 1]
ValueError == [kind |-> "ValueError", v |-> 0]

\* x < y of Python floats: every comparison with nan is False
Less(x, y) ==
    IF x.kind = "nan" \/ y.kind = "nan" THEN FALSE
    ELSE IF x.kind = "inf" THEN x.v < 0 /\ y # x
    ELSE IF y.kind = "inf" THEN y.v > 0
    ELSE x.v < y.v

\* the words a command can carry as its first argument
Arguments == {"abc", "nan", "inf", "19", "20", "60", "100", "101"}

\* float(context.args[0]): the value of a numeral, nan and inf for the
\* words Python reads as such, ValueError for any other word
float(word) ==
    CASE word = "19" -> Float(19)
      [] word = "20" -> Float(20)
      [] word = "60" -> Float(60)
      [] word = "100" -> Float(100)
      [] word = "101" -> Float(101)
      [] word = "nan" -> nan
      [] word = "inf" -> inf
      [] OTHER -> ValueError

\* line 553: threshold < 20 or threshold > 100
threshold_invalid(threshold) ==
    Less(threshold, Float(20)) \/ Less(Float(100), threshold)

\* data_models.py lines 94-95: the history keeps its last 50 entries
MaxHistory == 50

\* self.settings: the defaults of data_models.py lines 28-30, and values
\* set by the commands
DefaultSettings ==
    [stop_loss_pips |-> 5, take_profit_pips |-> 15,
     xau_take_profit_pips |-> 20]
Settings ==
    {DefaultSettings,
     [stop_loss_pips |-> 8, take_profit_pips |-> 12,
      xau_take_profit_pips |-> 25]}

\* what the chat completion request of analyze_pair yields: an exception
\* ("error"), a text without {...} ("no_json"), a text whose {...} json
\* cannot decode ("bad_json"), or a JSON object ("json") with its keys
\* 'signal' ("" when absent or empty) and 'confidence'
NoResponse == [kind |-> "none", signal |-> "", confidence |-> NoValue]
Responses ==
    [kind : {"error", "no_json", "bad_json"}, signal : {""},
     confidence : {NoValue}]
    \cup
    [kind : {"json"},
     signal : {"", "BUY", "STRONG_SELL", "NEUTRAL", "HOLD"},
     confidence : {NoValue, Text, Number(-100), Number(0), Number(50),
                   Number(100), Number(250)}]

\* ai_analysis = {}
EmptyDict == [signal |-> "", confidence |-> NoValue, model_used |-> ""]

\* analyze_single_pair returned None
None ==
    [pair |-> "none", direction |-> "", entry_price |-> 0, confidence |-> 0,
     stop_loss |-> 0, take_profit |-> 0, stop_loss_pips |-> 0,
     take_profit_pips |-> 0, is_forced |-> FALSE]

\* no analyze_single_pair call is in progress
NoAnalysis ==
    /\ analysis_pc = "idle"
    /\ analysed_pair = "none"
    /\ settings = DefaultSettings
    /\ ai_analyzer = "None"
    /\ technicals = NoTechnicals
    /\ response = NoResponse
    /\ ai_analysis = EmptyDict
    /\ ai_calls = 0
    /\ analysis_result = None

\* ------------------------------------------------------------------ Init
\* no scan_active_pairs call is in progress
NoScan ==
    /\ scan_pc = "idle"
    /\ scan_threshold = 0
    /\ pairs_to_scan = <<>>
    /\ task_result = <<>>
    /\ batch_start = 0
    /\ completed = <<>>
    /\ all_signals = <<>>
    /\ best_signal = NoSignal

Init ==
    /\ now = 0
    /\ PORTALOCKER_AVAILABLE \in BOOLEAN
    /\ path = NoFile
    /\ content = [i \in Inodes |-> Empty]
    /\ alive = [p \in Procs |-> TRUE]
    /\ pc = [p \in Procs |-> "idle"]
    /\ lock_held = [p \in Procs |-> FALSE]
    /\ lock_file = [p \in Procs |-> NoFile]
    /\ flocked = [p \in Procs |-> FALSE]
    /\ f = [p \in Procs |-> NoFile]
    /\ lock_data = [p \in Procs |-> Empty]
    /\ timeout = [p \in Procs |-> 0]
    /\ result = [p \in Procs |-> "none"]
    /\ call_pre = [p \in Procs |-> NoCall]
    /\ lease_expires = [p \in Procs |-> 0]
    /\ is_primary_instance = [p \in Procs |-> FALSE]
    /\ running = [p \in Procs |-> FALSE]
    /\ auto_scan_interval = [p \in Procs |-> LongLease]
    /\ main = [p \in Procs |-> "start"]
    /\ attempt = [p \in Procs |-> 0]
    /\ wait_time = [p \in Procs |-> 0]
    /\ maintainer = [p \in Procs |-> "none"]
    /\ scanner = [p \in Procs |-> "none"]
    /\ nigeria_time = [p \in Procs |-> 0]
    /\ current_signal = [p \in Procs |-> NoSignal]
    /\ entry_time = [p \in Procs |-> Never]
    /\ signal_lock = [p \in Procs |-> "none"]
    /\ signals_today = [p \in Procs |-> 0]
    /\ manual_threshold = [p \in Procs |-> Float(manual_confidence_threshold)]
    /\ settings_history = [p \in Procs |-> 0]
    /\ last_auto_scan = [p \in Procs |-> Never]
    /\ handler = [p \in Procs |-> "idle"]
    /\ pair = [p \in Procs |-> "none"]
    /\ NoScan
    /\ NoAnalysis
    /\ reply = [p \in Procs |-> "none"]
    /\ scanned = [p \in Procs |-> <<>>]

\* the call returns: pc back to idle, the argument is dropped
Return(p, r) ==
    /\ pc' = [pc EXCEPT ![p] = "idle"]
    /\ timeout' = [timeout EXCEPT ![p] = 0]
    /\ result' = [result EXCEPT ![p] = r]

\* ------------------------------------------------------------ acquire_lock
\* lines 149-162: the fallback reads the record and gives up when it is fresh
fallback_check(p, tmo) ==
    /\ IF path # NoFile /\ Parsable(content[path]) /\ ~IsStale(content[path], tmo)
       THEN /\ Return(p, "false")
            /\ UNCHANGED lock_data
       ELSE /\ pc' = [pc EXCEPT ![p] = "fb_write"]
            /\ timeout' = [timeout EXCEPT ![p] = tmo]
            /\ result' = [result EXCEPT ![p] = "none"]
            /\ lock_data' = [lock_data EXCEPT ![p] = LockData(p, now, tmo)]
    /\ UNCHANGED <<now, PORTALOCKER_AVAILABLE, path, content, alive, lock_held,
                   lock_file, flocked, f, lease_expires>>

\* lines 53-63: entry of acquire_lock up to open(self.lock_file_path, 'w')
acquire_lock(p, tmo) ==
    /\ alive[p] /\ pc[p] = "idle"
    /\ IF ~PORTALOCKER_AVAILABLE
       THEN fallback_check(p, tmo)
       ELSE /\ IF lock_held[p]
               THEN /\ Return(p, "true")
                    /\ UNCHANGED <<path, content, lock_file>>
               ELSE /\ pc' = [pc EXCEPT ![p] = "acq_opened"]
                    /\ timeout' = [timeout EXCEPT ![p] = tmo]
                    /\ result' = [result EXCEPT ![p] = "none"]
                    /\ lock_file' = [lock_file EXCEPT ![p] = OpenedInode]
                    /\ path' = OpenedInode
                    /\ content' = [content EXCEPT ![OpenedInode] = Empty]
            /\ UNCHANGED <<now, PORTALOCKER_AVAILABLE, alive, lock_held,
                           flocked, f, lock_data, lease_expires>>

\* line 67 and lines 89-92: portalocker.lock(LOCK_EX | LOCK_NB)
acquire_trylock(p) ==
    /\ alive[p] /\ pc[p] = "acq_opened"
    /\ IF FlockFree(lock_file[p])
       THEN /\ flocked' = [flocked EXCEPT ![p] = TRUE]
            /\ pc' = [pc EXCEPT ![p] = "acq_locked"]
            /\ UNCHANGED <<lock_file, content>>
       ELSE \* LockException: close the descriptor
            /\ lock_file' = [lock_file EXCEPT ![p] = NoFile]
            /\ content' = Reclaim(content, path, lock_file', f)
            /\ pc' = [pc EXCEPT ![p] = "acq_readlock"]
            /\ UNCHANGED flocked
    /\ UNCHANGED <<now, PORTALOCKER_AVAILABLE, path, alive, lock_held, f,
                   lock_data, timeout, result, lease_expires>>

\* lines 70-87 (and 109-126): write the record through the locked descriptor
acquire_write(p) ==
    /\ alive[p] /\ pc[p] = "acq_locked"
    /\ content' = [content EXCEPT
                     ![lock_file[p]] = LockData(p, now, timeout[p])]
    /\ lock_held' = [lock_held EXCEPT ![p] = TRUE]
    /\ lease_expires' = [lease_expires EXCEPT ![p] = now + timeout[p]]
    /\ Return(p, "true")
    /\ UNCHANGED <<now, PORTALOCKER_AVAILABLE, path, alive, lock_file, flocked,
                   f, lock_data>>

\* lines 95-101 and 127-134: read the holder's record after LockException
acquire_readlock(p) ==
    /\ alive[p] /\ pc[p] = "acq_readlock"
    /\ IF Parsable(ReadRecord) /\ IsStale(ReadRecord, timeout[p])
       THEN /\ pc' = [pc EXCEPT ![p] = "acq_force"]
            /\ UNCHANGED <<timeout, result>>
       ELSE \* fresh record, or the read raised (no file, empty file)
            Return(p, "false")
    /\ UNCHANGED <<now, PORTALOCKER_AVAILABLE, path, content, alive, lock_held,
                   lock_file, flocked, f, lock_data, lease_expires>>

\* line 105: open(self.lock_file_path, 'w') of the forced acquisition
acquire_force_open(p) ==
    /\ alive[p] /\ pc[p] = "acq_force"
    /\ lock_file' = [lock_file EXCEPT ![p] = OpenedInode]
    /\ path' = OpenedInode
    /\ content' = [content EXCEPT ![OpenedInode] = Empty]
    /\ pc' = [pc EXCEPT ![p] = "acq_force_opened"]
    /\ UNCHANGED <<now, PORTALOCKER_AVAILABLE, alive, lock_held, flocked, f,
                   lock_data, timeout, result, lease_expires>>

\* line 106: portalocker.lock(LOCK_EX) blocks until the flock is free
acquire_force_lock(p) ==
    /\ alive[p] /\ pc[p] = "acq_force_opened"
    /\ FlockFree(lock_file[p])
    /\ flocked' = [flocked EXCEPT ![p] = TRUE]
    /\ pc' = [pc EXCEPT ![p] = "acq_locked"]
    /\ UNCHANGED <<now, PORTALOCKER_AVAILABLE, path, content, alive, lock_held,
                   lock_file, f, lock_data, timeout, result,
                   lease_expires>>

\* line 173: with open(self.lock_file_path, 'w') as f
fallback_open(p) ==
    /\ alive[p] /\ pc[p] = "fb_write"
    /\ f' = [f EXCEPT ![p] = OpenedInode]
    /\ path' = OpenedInode
    /\ content' = [content EXCEPT ![OpenedInode] = Empty]
    /\ pc' = [pc EXCEPT ![p] = "fb_opened"]
    /\ UNCHANGED <<now, PORTALOCKER_AVAILABLE, alive, lock_held, lock_file,
                   flocked, lock_data, timeout, result, lease_expires>>

\* lines 174-179: json.dump, close, self.lock_held = True
fallback_write(p) ==
    /\ alive[p] /\ pc[p] = "fb_opened"
    /\ f' = [f EXCEPT ![p] = NoFile]
    /\ content' = Reclaim([content EXCEPT ![f[p]] = lock_data[p]],
                          path, lock_file, f')
    /\ lock_data' = [lock_data EXCEPT ![p] = Empty]
    /\ lock_held' = [lock_held EXCEPT ![p] = TRUE]
    /\ lease_expires' = [lease_expires EXCEPT ![p] = lock_data[p].expires]
    /\ Return(p, "true")
    /\ UNCHANGED <<now, PORTALOCKER_AVAILABLE, path, alive, lock_file,
                   flocked>>

\* -------------------------------------------------------------- renew_lock
\* lines 185-209: no check of the record, only of self.lock_held
renew_lock(p, tmo) ==
    /\ alive[p] /\ pc[p] = "idle"
    /\ IF ~lock_held[p]
       THEN UNCHANGED <<path, content, pc, f, lock_data, timeout,
                        lease_expires>>
       ELSE IF PORTALOCKER_AVAILABLE /\ lock_file[p] # NoFile
            THEN \* lines 201-204: rewrite through the held descriptor
                 /\ content' = [content EXCEPT
                                  ![lock_file[p]] = LockData(p, now, tmo)]
                 /\ lease_expires' = [lease_expires EXCEPT ![p] = now + tmo]
                 /\ UNCHANGED <<path, pc, f, lock_data, timeout>>
            ELSE \* line 206: with open(self.lock_file_path, 'w') as f
                 /\ f' = [f EXCEPT ![p] = OpenedInode]
                 /\ path' = OpenedInode
                 /\ content' = [content EXCEPT ![OpenedInode] = Empty]
                 /\ lock_data' = [lock_data EXCEPT ![p] = LockData(p, now, tmo)]
                 /\ timeout' = [timeout EXCEPT ![p] = tmo]
                 /\ pc' = [pc EXCEPT ![p] = "rn_opened"]
                 /\ UNCHANGED lease_expires
    /\ UNCHANGED <<now, PORTALOCKER_AVAILABLE, alive, lock_held, lock_file,
                   flocked, result>>

\* line 207: json.dump and close of the renewal
renew_write(p) ==
    /\ alive[p] /\ pc[p] = "rn_opened"
    /\ f' = [f EXCEPT ![p] = NoFile]
    /\ content' = Reclaim([content EXCEPT ![f[p]] = lock_data[p]],
                          path, lock_file, f')
    /\ lock_data' = [lock_data EXCEPT ![p] = Empty]
    /\ timeout' = [timeout EXCEPT ![p] = 0]
    /\ lease_expires' = [lease_expires EXCEPT ![p] = lock_data[p].expires]
    /\ pc' = [pc EXCEPT ![p] = "idle"]
    /\ UNCHANGED <<now, PORTALOCKER_AVAILABLE, path, alive, lock_held,
                   lock_file, flocked, result>>

\* ------------------------------------------------------------ release_lock
\* lines 236-240: os.remove(self.lock_file_path), self.lock_held = False
RemoveLockFile(p) ==
    /\ path' = NoFile
    /\ content' = Reclaim(content, path', lock_file', f)
    /\ lock_held' = [lock_held EXCEPT ![p] = FALSE]
    /\ lease_expires' = [lease_expires EXCEPT ![p] = 0]
    /\ pc' = [pc EXCEPT ![p] = "idle"]

\* lines 223-232: no check of the record, only of self.lock_held
release_lock(p) ==
    /\ alive[p] /\ pc[p] = "idle"
    /\ IF ~lock_held[p]
       THEN UNCHANGED <<path, content, pc, lock_held, lock_file, flocked,
                        lease_expires>>
       ELSE IF PORTALOCKER_AVAILABLE /\ lock_file[p] # NoFile
            THEN \* portalocker.unlock, close
                 /\ flocked' = [flocked EXCEPT ![p] = FALSE]
                 /\ lock_file' = [lock_file EXCEPT ![p] = NoFile]
                 /\ content' = Reclaim(content, path, lock_file', f)
                 /\ pc' = [pc EXCEPT ![p] = "rl_closed"]
                 /\ UNCHANGED <<path, lock_held, lease_expires>>
            ELSE /\ UNCHANGED <<lock_file, flocked>>
                 /\ RemoveLockFile(p)
    /\ UNCHANGED <<now, PORTALOCKER_AVAILABLE, alive, f, lock_data, timeout,
                   result>>

release_remove(p) ==
    /\ alive[p] /\ pc[p] = "rl_closed"
    /\ UNCHANGED <<lock_file, flocked>>
    /\ RemoveLockFile(p)
    /\ UNCHANGED <<now, PORTALOCKER_AVAILABLE, alive, f, lock_data, timeout,
                   result>>

\* ------------------------------------------------------------ process death
\* the process is killed: the OS closes its descriptors (dropping its flock)
\* and nothing of its memory remains; the file stays as it is
Crash(p) ==
    /\ alive[p]
    /\ alive' = [alive EXCEPT ![p] = FALSE]
    /\ pc' = [pc EXCEPT ![p] = "dead"]
    /\ lock_held' = [lock_held EXCEPT ![p] = FALSE]
    /\ lock_file' = [lock_file EXCEPT ![p] = NoFile]
    /\ flocked' = [flocked EXCEPT ![p] = FALSE]
    /\ f' = [f EXCEPT ![p] = NoFile]
    /\ content' = Reclaim(content, path, lock_file', f')
    /\ lock_data' = [lock_data EXCEPT ![p] = Empty]
    /\ timeout' = [timeout EXCEPT ![p] = 0]
    /\ result' = [result EXCEPT ![p] = "none"]
    /\ call_pre' = [call_pre EXCEPT ![p] = NoCall]
    /\ lease_expires' = [lease_expires EXCEPT ![p] = 0]
    /\ UNCHANGED <<now, PORTALOCKER_AVAILABLE, path>>

\* --------------------------------------------------------------- the clock
Tick ==
    /\ now < MaxTime
    /\ now' = now + 1
    /\ UNCHANGED <<PORTALOCKER_AVAILABLE, path, content, alive, pc, lock_held,
                   lock_file, flocked, f, lock_data, timeout, result, call_pre,
                   lease_expires>>

\* --------------------------------------------------------- specification
Next ==
    \/ \E p \in Procs, tmo \in Timeouts :
          acquire_lock(p, tmo) /\ History(p) /\ UNCHANGED bot_vars
    \/ \E p \in Procs : acquire_trylock(p) /\ History(p) /\ UNCHANGED bot_vars
    \/ \E p \in Procs : acquire_write(p) /\ History(p) /\ UNCHANGED bot_vars
    \/ \E p \in Procs : acquire_readlock(p) /\ History(p) /\ UNCHANGED bot_vars
    \/ \E p \in Procs :
          acquire_force_open(p) /\ History(p) /\ UNCHANGED bot_vars
    \/ \E p \in Procs :
          acquire_force_lock(p) /\ History(p) /\ UNCHANGED bot_vars
    \/ \E p \in Procs : fallback_open(p) /\ History(p) /\ UNCHANGED bot_vars
    \/ \E p \in Procs : fallback_write(p) /\ History(p) /\ UNCHANGED bot_vars
    \/ \E p \in Procs, tmo \in Timeouts :
          renew_lock(p, tmo) /\ History(p) /\ UNCHANGED bot_vars
    \/ \E p \in Procs : renew_write(p) /\ History(p) /\ UNCHANGED bot_vars
    \/ \E p \in Procs : release_lock(p) /\ History(p) /\ UNCHANGED bot_vars
    \/ \E p \in Procs : release_remove(p) /\ History(p) /\ UNCHANGED bot_vars
    \/ \E p \in Procs : Crash(p) /\ UNCHANGED bot_vars
    \/ Tick /\ UNCHANGED bot_vars

Spec == Init /\ [][Next]_vars

\* Two processes each make their first acquire_lock call against the
\* unclaimed record of Init, and nothing else happens besides the clock.
\* (portalocker.lock(LOCK_EX) of a forced acquisition waits for a release
\* that no process of this scenario makes, so it has no step here.)
RaceNext ==
    \/ \E p \in Procs, tmo \in Timeouts :
          result[p] = "none" /\ acquire_lock(p, tmo) /\ History(p) /\ UNCHANGED bot_vars
    \/ \E p \in Procs : acquire_trylock(p) /\ History(p) /\ UNCHANGED bot_vars
    \/ \E p \in Procs : acquire_write(p) /\ History(p) /\ UNCHANGED bot_vars
    \/ \E p \in Procs : acquire_readlock(p) /\ History(p) /\ UNCHANGED bot_vars
    \/ \E p \in Procs :
          acquire_force_open(p) /\ History(p) /\ UNCHANGED bot_vars
    \/ \E p \in Procs : fallback_open(p) /\ History(p) /\ UNCHANGED bot_vars
    \/ \E p \in Procs : fallback_write(p) /\ History(p) /\ UNCHANGED bot_vars
    \/ Tick /\ UNCHANGED bot_vars

SpecRace == Init /\ [][RaceNext]_vars

\* ======================================================================
\*                    THE BOT (src/bot_handlers.py)
\* ======================================================================

\* the event loop of p is free to run a coroutine: no coroutine of p is
\* inside a (synchronous) call of the instance manager
LoopFree(p) ==
    /\ alive[p] /\ pc[p] = "idle"
    /\ main[p] \notin {"start", "setup_acquire", "stop_release"}
    /\ maintainer[p] \notin {"reacquire", "renew"}
    /\ handler[p] # "take_lock"

\* the while condition of lock_maintainer and auto_scanner
LoopCondition(p, prim) == IF running[p] /\ prim THEN "sleep" ELSE "done"

\* ----------------------------------------------------------- setup_polling
\* a backoff that waits the same time after every attempt
FixedBackoff(a) == 4

\* line 156: wait_time = 2 + (attempt * 0.5), in half seconds
ProgressiveBackoff(a) == 4 + a

\* lines 132-158: what setup_polling does with the outcome of acquire_lock
setup_result(p) ==
    /\ IF pc'[p] # "idle"
       THEN /\ main' = [main EXCEPT ![p] = "setup_acquire"]
            /\ UNCHANGED <<is_primary_instance, attempt, wait_time,
                           maintainer>>
       ELSE IF result'[p] = "true"
            THEN \* primary: create_task(lock_maintainer), break, and on to
                 \* await self.send_admin(welcome_msg)
                 /\ is_primary_instance' =
                        [is_primary_instance EXCEPT ![p] = TRUE]
                 /\ maintainer' = [maintainer EXCEPT ![p] = "created"]
                 /\ main' = [main EXCEPT ![p] = "setup_welcome"]
                 /\ attempt' = [attempt EXCEPT ![p] = 0]
                 /\ wait_time' = [wait_time EXCEPT ![p] = 0]
            ELSE \* await asyncio.sleep(wait_time)
                 /\ main' = [main EXCEPT ![p] = "setup_sleep"]
                 /\ attempt' = [attempt EXCEPT ![p] = attempt[p] + 1]
                 /\ wait_time' = [wait_time EXCEPT
                                    ![p] = ProgressiveBackoff(attempt[p])]
                 /\ UNCHANGED <<is_primary_instance, maintainer>>
    /\ UNCHANGED <<running, auto_scan_interval, scan_vars, cmd_vars,
                   batch_vars, reply_vars, analysis_vars,
                   mutex_vars, stats_vars, settings_vars>>

\* lines 132-133: one iteration of `for attempt in range(15)`
setup_polling(p) ==
    /\ alive[p] /\ pc[p] = "idle"
    /\ main[p] \in {"start", "setup_sleep"}
    /\ attempt[p] < SetupAttempts
    /\ acquire_lock(p, LongLease)
    /\ setup_result(p)

\* a step inside the acquire_lock call made by setup_polling
setup_acquire(p) ==
    /\ main[p] = "setup_acquire"
    /\ \/ acquire_trylock(p)
       \/ acquire_write(p)
       \/ acquire_readlock(p)
       \/ acquire_force_open(p)
       \/ acquire_force_lock(p)
       \/ fallback_open(p)
       \/ fallback_write(p)
    /\ setup_result(p)

\* lines 160-162 and 217-222 after the last failed attempt
setup_secondary(p) ==
    /\ alive[p] /\ pc[p] = "idle"
    /\ main[p] = "setup_sleep" /\ attempt[p] = SetupAttempts
    /\ auto_scan_interval' = [auto_scan_interval EXCEPT ![p] = 0]
    /\ running' = [running EXCEPT ![p] = TRUE]
    /\ main' = [main EXCEPT ![p] = "polling"]
    /\ attempt' = [attempt EXCEPT ![p] = 0]
    /\ wait_time' = [wait_time EXCEPT ![p] = 0]
    /\ UNCHANGED <<lease_vars, is_primary_instance, maintainer, scan_vars,
                   cmd_vars, batch_vars, reply_vars, analysis_vars,
                   mutex_vars, stats_vars, settings_vars>>

\* lines 214-222: send_admin is over; create_task(auto_scanner), running
setup_complete(p) ==
    /\ alive[p] /\ pc[p] = "idle"
    /\ main[p] = "setup_welcome"
    /\ maintainer[p] \notin {"reacquire", "renew"}
    /\ scanner' = [scanner EXCEPT ![p] =
                     IF is_primary_instance[p] THEN "created" ELSE @]
    /\ running' = [running EXCEPT ![p] = TRUE]
    /\ main' = [main EXCEPT ![p] = "polling"]
    /\ UNCHANGED <<lease_vars, is_primary_instance, auto_scan_interval,
                   attempt, wait_time, maintainer, nigeria_time,
                   current_signal, entry_time, last_auto_scan, cmd_vars,
                   batch_vars,
                   reply_vars, analysis_vars,
                   mutex_vars, stats_vars, settings_vars>>

\* ---------------------------------------------------------- lock_maintainer
\* line 232: the task runs for the first time and tests the while condition
maintainer_start(p) ==
    /\ LoopFree(p) /\ maintainer[p] = "created"
    /\ maintainer' = [maintainer EXCEPT
                        ![p] = LoopCondition(p, is_primary_instance[p])]
    /\ UNCHANGED <<lease_vars, is_primary_instance, running,
                   auto_scan_interval, main, attempt, wait_time, scan_vars,
                   cmd_vars, batch_vars, reply_vars, analysis_vars,
                   mutex_vars, stats_vars, settings_vars>>

\* lines 234-241 and 248-250: asyncio.sleep(30) is over; is_primary()
maintainer_check(p) ==
    /\ LoopFree(p) /\ maintainer[p] = "sleep"
    /\ IF ~is_primary(p)
       THEN /\ is_primary_instance' =
                   [is_primary_instance EXCEPT ![p] = FALSE]
            /\ maintainer' = [maintainer EXCEPT ![p] = "reacquire"]
       ELSE /\ maintainer' = [maintainer EXCEPT ![p] = "renew"]
            /\ UNCHANGED is_primary_instance
    /\ UNCHANGED <<lease_vars, running, auto_scan_interval, main, attempt,
                   wait_time, scan_vars, cmd_vars, batch_vars,
                   reply_vars, analysis_vars,
                   mutex_vars, stats_vars, settings_vars>>

\* lines 242-247: the outcome of the reacquisition, then the while condition
reacquire_result(p) ==
    /\ IF pc'[p] # "idle"
       THEN UNCHANGED <<is_primary_instance, maintainer>>
       ELSE IF result'[p] = "true"
            THEN /\ is_primary_instance' =
                        [is_primary_instance EXCEPT ![p] = TRUE]
                 /\ maintainer' = [maintainer EXCEPT
                                     ![p] = LoopCondition(p, TRUE)]
            ELSE \* break
                 /\ maintainer' = [maintainer EXCEPT ![p] = "done"]
                 /\ UNCHANGED is_primary_instance
    /\ UNCHANGED <<running, auto_scan_interval, main, attempt, wait_time,
                   scan_vars, cmd_vars, batch_vars, reply_vars, analysis_vars,
                   mutex_vars, stats_vars, settings_vars>>

\* line 243: self.instance_manager.acquire_lock(timeout=300), and its steps
maintainer_reacquire(p) ==
    /\ maintainer[p] = "reacquire"
    /\ \/ acquire_lock(p, LongLease)
       \/ acquire_trylock(p)
       \/ acquire_write(p)
       \/ acquire_readlock(p)
       \/ acquire_force_open(p)
       \/ acquire_force_lock(p)
       \/ fallback_open(p)
       \/ fallback_write(p)
    /\ reacquire_result(p)

\* line 250: self.instance_manager.renew_lock(timeout=300), and its steps
maintainer_renew(p) ==
    /\ maintainer[p] = "renew"
    /\ \/ renew_lock(p, LongLease)
       \/ renew_write(p)
    /\ maintainer' = [maintainer EXCEPT
                        ![p] = IF pc'[p] # "idle" THEN @
                               ELSE LoopCondition(p, is_primary_instance[p])]
    /\ UNCHANGED <<is_primary_instance, running, auto_scan_interval, main,
                   attempt, wait_time, scan_vars, cmd_vars, batch_vars,
                   reply_vars, analysis_vars,
                   mutex_vars, stats_vars, settings_vars>>

\* ------------------------------------------------------- scan_active_pairs
\* a filter that keeps what does not exceed the threshold
NotExceeding(active, analysis, threshold) ==
    {i \in 1..Len(active) :
        /\ analysis[active[i]] # NoResult
        /\ analysis[active[i]] <= threshold}

\* the indices of the analysed pairs whose Signal reaches the threshold
Qualifying(active, analysis, threshold) ==
    {i \in 1..Len(active) :
        /\ analysis[active[i]] # NoResult
        /\ analysis[active[i]] >= threshold}

\* all_signals.sort(key=confidence, reverse=True); all_signals[0]: the sort
\* is stable, so the first of the highest confidence
BestIndex(active, analysis, threshold) ==
    CHOOSE i \in Qualifying(active, analysis, threshold) :
        \A j \in Qualifying(active, analysis, threshold) :
            \/ analysis[active[j]] < analysis[active[i]]
            \/ analysis[active[j]] = analysis[active[i]] /\ i <= j

BestSignal(active, analysis, threshold, signal_type, forced) ==
    IF Qualifying(active, analysis, threshold) = {}
    THEN NoSignal
    ELSE [Signal(active[BestIndex(active, analysis, threshold)], signal_type,
                 analysis[active[BestIndex(active, analysis, threshold)]])
            EXCEPT !.is_forced = forced]

scan_active_pairs(active, analysis, signal_type) ==
    BestSignal(active, analysis, min_confidence, signal_type, FALSE)

scan_active_pairs_manual(active, analysis, signal_type) ==
    BestSignal(active, analysis, manual_confidence_threshold, signal_type,
               TRUE)

\* every Signal (or None) a scan can return, over the pairs that may be
\* active and the analyses they may get
AutoScans ==
    {scan_active_pairs(active, analysis, "AUTO") :
        active \in ActiveLists, analysis \in Analyses}

ManualScans ==
    {scan_active_pairs_manual(active, analysis, "MANUAL_FORCE") :
        active \in ActiveLists, analysis \in Analyses}

\* ------------------------------------- one scan, batch by batch
\* lines 1961 and 2008: batch_size = 3
batch_size == 3

\* an analyze_single_pair task that ended with an exception
Raised == -1

\* what the analyses of the pairs of `active` can yield: a Signal with a
\* confidence, None, or an exception
Outcomes(active) ==
    [{active[i] : i \in 1..Len(active)} ->
        Confidences \cup {NoResult, Raised}]

\* a slice without its end: pairs_to_scan[i:]
BatchToEnd == {k \in 1..Len(pairs_to_scan) : batch_start <= k}

\* the indices in pairs_to_scan of the batch pairs_to_scan[i:i+batch_size]
Batch ==
    {k \in 1..Len(pairs_to_scan) :
        batch_start <= k /\ k < batch_start + batch_size}

\* a gather that hands the results over in the order of completion
as_completed(done) == done

\* lines 1972 and 2019: `results = await asyncio.gather(*tasks, ...)`: the
\* results come in the order of the tasks, whatever the order `done` in
\* which the tasks completed
gather(done) == [n \in 1..Len(done) |-> batch_start + n - 1]

\* asyncio.gather without return_exceptions
raise_first_exception == FALSE

\* lines 1972 and 2019: return_exceptions=True
return_exceptions == TRUE

\* lines 1974-1978 and 2021-2028: the results that are a Signal reaching the
\* scan_threshold, in the order of `results`
Passing(results) ==
    SelectSeq(results,
              LAMBDA k :
                  /\ task_result[pairs_to_scan[k]] \notin {NoResult, Raised}
                  /\ task_result[pairs_to_scan[k]] >= scan_threshold)

\* list.sort(key=lambda x: x.confidence, reverse=True), a stable sort: k is
\* put behind every element whose confidence is not smaller
RECURSIVE Insert(_, _)
Insert(sorted, k) ==
    IF sorted = <<>>
    THEN <<k>>
    ELSE IF task_result[pairs_to_scan[Head(sorted)]]
                >= task_result[pairs_to_scan[k]]
         THEN <<Head(sorted)>> \o Insert(Tail(sorted), k)
         ELSE <<k>> \o sorted

RECURSIVE Sort(_)
Sort(signals) ==
    IF signals = <<>>
    THEN <<>>
    ELSE Insert(Sort(SubSeq(signals, 1, Len(signals) - 1)),
                signals[Len(signals)])

\* the best Signal as analyze_single_pair built it, is_forced left alone
FoundUnforced(k) ==
    Signal(pairs_to_scan[k],
           IF scan_threshold = min_confidence THEN "AUTO" ELSE "MANUAL_FORCE",
           task_result[pairs_to_scan[k]])

\* lines 1986-1990 and 2036-2040: best_signal = all_signals[0], the Signal
\* of pairs_to_scan[k], with is_forced set by scan_active_pairs_manual
Found(k) ==
    [Signal(pairs_to_scan[k],
            IF scan_threshold = min_confidence
            THEN "AUTO" ELSE "MANUAL_FORCE",
            task_result[pairs_to_scan[k]])
       EXCEPT !.is_forced = scan_threshold # min_confidence]

\* lines 1951-1957 and 1998-2004: the scan starts; tasks are created for
\* the first batch, or None is returned when no pair is active
scan_start ==
    /\ scan_pc = "idle"
    /\ \E th \in {min_confidence, manual_confidence_threshold},
          active \in ActiveLists :
          \E outcomes \in Outcomes(active) :
              /\ scan_threshold' = th
              /\ pairs_to_scan' = active
              /\ task_result' = outcomes
              /\ scan_pc' = IF active = <<>> THEN "returned" ELSE "gather"
              /\ batch_start' = IF active = <<>> THEN 0 ELSE 1
    /\ UNCHANGED <<completed, all_signals, best_signal>>
    /\ UNCHANGED <<lease_vars, life_vars, scan_vars, cmd_vars, reply_vars,
                   analysis_vars,
                   mutex_vars, stats_vars, settings_vars>>

\* lines 2046-2155: one task of the batch completes
analyze_single_pair(k) ==
    /\ scan_pc = "gather"
    /\ k \in Batch /\ \A n \in 1..Len(completed) : completed[n] # k
    /\ completed' = Append(completed, k)
    /\ UNCHANGED <<scan_pc, scan_threshold, pairs_to_scan, task_result,
                   batch_start, all_signals, best_signal>>
    /\ UNCHANGED <<lease_vars, life_vars, scan_vars, cmd_vars, reply_vars,
                   analysis_vars,
                   mutex_vars, stats_vars, settings_vars>>

\* lines 1972 and 2019: `await asyncio.gather(*tasks, ...)` hands over once
\* every task of the batch is done; without return_exceptions it raises
\* as soon as one task has raised, while the others are still running
Gathered ==
    \/ Len(completed) = Cardinality(Batch)
    \/ /\ ~return_exceptions
       /\ \E n \in 1..Len(completed) :
             task_result[pairs_to_scan[completed[n]]] = Raised

\* lines 1972-1980 and 2019-2029: the batch is gathered; the results are
\* filtered into all_signals and the scan sleeps for a second; an exception
\* out of gather reaches `except Exception` (1992-1994): return None
scan_batch_done ==
    /\ scan_pc = "gather"
    /\ Gathered
    /\ IF /\ ~return_exceptions
          /\ \E n \in 1..Len(completed) :
                task_result[pairs_to_scan[completed[n]]] = Raised
       THEN /\ scan_pc' = "returned"
            /\ best_signal' = NoSignal
            /\ UNCHANGED all_signals
       ELSE /\ all_signals' = all_signals \o Passing(gather(completed))
            /\ scan_pc' = "sleep"
            /\ UNCHANGED best_signal
    /\ UNCHANGED <<scan_threshold, pairs_to_scan, task_result, batch_start,
                   completed>>
    /\ UNCHANGED <<lease_vars, life_vars, scan_vars, cmd_vars, reply_vars,
                   analysis_vars,
                   mutex_vars, stats_vars, settings_vars>>

\* lines 1980 and 2029: `await asyncio.sleep(1)` is over; lines 1964-1970:
\* the tasks of the next batch are created; after the last batch (lines
\* 1981-1990 and 2031-2040) the best Signal is returned, or None
scan_sleep_done ==
    /\ scan_pc = "sleep"
    /\ IF batch_start + batch_size <= Len(pairs_to_scan)
       THEN /\ batch_start' = batch_start + batch_size
            /\ completed' = <<>>
            /\ scan_pc' = "gather"
            /\ UNCHANGED best_signal
       ELSE /\ scan_pc' = "returned"
            /\ best_signal' =
                  IF all_signals = <<>>
                  THEN NoSignal
                  ELSE Found(Sort(all_signals)[1])
            /\ UNCHANGED <<batch_start, completed>>
    /\ UNCHANGED <<scan_threshold, pairs_to_scan, task_result, all_signals>>
    /\ UNCHANGED <<lease_vars, life_vars, scan_vars, cmd_vars, reply_vars,
                   analysis_vars,
                   mutex_vars, stats_vars, settings_vars>>

\* the caller has the value returned
scan_returned ==
    /\ scan_pc = "returned"
    /\ scan_pc' = "idle"
    /\ scan_threshold' = 0
    /\ pairs_to_scan' = <<>>
    /\ task_result' = <<>>
    /\ batch_start' = 0
    /\ completed' = <<>>
    /\ all_signals' = <<>>
    /\ best_signal' = NoSignal
    /\ UNCHANGED <<lease_vars, life_vars, scan_vars, cmd_vars, reply_vars,
                   analysis_vars,
                   mutex_vars, stats_vars, settings_vars>>

ScanNext ==
    \/ scan_start
    \/ \E k \in 1..Len(ALL_PAIRS) : analyze_single_pair(k)
    \/ scan_batch_done
    \/ scan_sleep_done
    \/ scan_returned

SpecScan == Init /\ [][ScanNext]_vars

\* ------------------------------------- analyze_single_pair, step by step
\* analysis_engine.py lines 302-415: the dict analyze_pair returns
analyze_pair(client, resp) ==
    IF ~client
    THEN [signal |-> "NEUTRAL", confidence |-> Number(default_ai_confidence),
          model_used |-> "No API Key"]
    ELSE IF resp.kind = "error"
         THEN [signal |-> "NEUTRAL",
               confidence |-> Number(default_ai_confidence),
               model_used |-> "error"]
         ELSE IF resp.kind \in {"no_json", "bad_json"}
              THEN [signal |-> "NEUTRAL",
                    confidence |-> Number(default_ai_confidence),
                    model_used |-> "model"]
              ELSE \* json.loads(json_match.group()), as it is
                   [signal |-> resp.signal, confidence |-> resp.confidence,
                    model_used |-> "model"]

\* lines 2087 and 2197:
\* ai_analysis.get('confidence', 50) if ai_analysis else 50
ai_confidence(d) ==
    IF d # EmptyDict /\ d.confidence.kind # "absent"
    THEN d.confidence
    ELSE Number(default_ai_confidence)

max(a, b) == IF a >= b THEN a ELSE b
min(a, b) == IF a <= b THEN a ELSE b

\* tech_confidence * 0.7 + ai_confidence * 0.3 as it is, in tenths
weighted_confidence(tech_confidence, ai) == tech_confidence * 7 + ai * 3

\* lines 2090-2091 and 2200-2201, in tenths of a percent:
\* min(100, max(0, tech_confidence * 0.7 + ai_confidence * 0.3))
final_confidence(tech_confidence, ai) ==
    min(1000, max(0, tech_confidence * 7 + ai * 3))

\* round(x * m / d) to the nearest integer, halves to the even one, for
\* x >= 0, without forming x * m (the floats of the code carry a rounding
\* error of their own, far below a millionth at these magnitudes)
round(x, m, d) ==
    LET whole == m * (x \div d) + (m * (x % d)) \div d
        rest == (m * (x % d)) % d
    IN  IF 2 * rest > d \/ (2 * rest = d /\ whole % 2 = 1)
        THEN whole + 1
        ELSE whole

\* a pip multiplier that knows no gold
pip_multiplier_jpy(pr) == IF Contains(pr, "JPY") THEN 100 ELSE 10000

\* analysis_engine.py lines 419-424
pip_multiplier(pr) ==
    IF Contains(pr, "JPY")
    THEN 100
    ELSE IF pr = "XAU/USD" THEN 100 ELSE 10000

\* analysis_engine.py lines 417-438: <<stop_loss_price, take_profit_price>>
\* in units of 0.00001, for an entry price in millionths; 0.995 is 199/200
\* and an amount in millionths is a tenth of it in units of 0.00001
calculate_stop_loss_take_profit(entry, direction, sl_pips, tp_pips, pr) ==
    LET pip == 1000000 \div pip_multiplier(pr)
    IN  IF Contains(direction, "BUY")
        THEN <<round(entry - sl_pips * pip, 1, 10),
               round(entry + tp_pips * pip, 1, 10)>>
        ELSE IF Contains(direction, "SELL")
             THEN <<round(entry + sl_pips * pip, 1, 10),
                    round(entry - tp_pips * pip, 1, 10)>>
             ELSE <<round(entry, 199, 2000),
                    round(entry, 201, 2000)>>

\* a direction that never looks at the AI result
TechnicalDirection(t, d) == t.direction

\* lines 2093-2096: the direction of the Signal
Direction(t, d) ==
    IF d # EmptyDict /\ d.signal # "" /\ d.signal # "NEUTRAL"
    THEN d.signal
    ELSE t.direction

\* take-profit pips that know no special setting for gold
general_tp_pips(pr, st) == st.take_profit_pips

\* lines 2103-2107: tp_pips, from the settings st; XAU/USD has its own
tp_pips(pr, st) ==
    IF pr = "XAU/USD" THEN st.xau_take_profit_pips ELSE st.take_profit_pips

\* lines 2086-2151: what the call returns once the technicals t passed and
\* the AI dict d is known; arithmetic on a confidence that is no number
\* raises TypeError, which `except Exception` (line 2153) turns into None
Analysed(pr, t, d, st) ==
    LET ai == ai_confidence(d)
        prices == calculate_stop_loss_take_profit(
                      t.price, Direction(t, d), st.stop_loss_pips,
                      tp_pips(pr, st), pr)
    IN  IF ai.kind # "number"
        THEN None
        ELSE [pair |-> pr, direction |-> Direction(t, d),
              entry_price |-> round(t.price, 1, 10),
              confidence |-> final_confidence(t.confidence, ai.number),
              stop_loss |-> prices[1], take_profit |-> prices[2],
              stop_loss_pips |-> st.stop_loss_pips,
              take_profit_pips |-> tp_pips(pr, st),
              is_forced |-> FALSE]

\* the AI scorer is called without looking at the technicals
NeverRejected(t) == FALSE

\* lines 2072 and 2182:
\* not technicals or technicals.get('confidence', 0) < 30
Rejected(t) == t = NoTechnicals \/ t.confidence < baseline_confidence

\* lines 2048-2070: the call starts; outside the pair's trading hours, or
\* with fewer than 5 rows of market data, it returns None; otherwise the
\* technical analysis is handed to the executor
analyze_market_data ==
    /\ analysis_pc = "idle"
    /\ \E pr \in AnalysedPairs, st \in Settings,
          az \in {"None", "AIAnalyzer"},
          data \in {"closed", "empty", "rows"} :
          /\ analysed_pair' = pr
          /\ settings' = st
          /\ ai_analyzer' = az
          /\ analysis_pc' = IF data = "rows" THEN "technicals" ELSE "returned"
    /\ UNCHANGED <<technicals, response, ai_analysis, ai_calls,
                   analysis_result>>
    /\ UNCHANGED <<lease_vars, life_vars, scan_vars, cmd_vars, batch_vars,
                   reply_vars, mutex_vars, stats_vars, settings_vars>>

\* lines 2066-2084 (and to 2151 without AI scorer): the technicals are
\* there; they are rejected, or the AI scorer is invoked, or, without AI
\* scorer, the Signal is built
analyze_technicals ==
    /\ analysis_pc = "technicals"
    /\ \E t \in TechnicalResults :
          /\ technicals' = t
          /\ IF Rejected(t)
             THEN /\ analysis_pc' = "returned"
                  /\ UNCHANGED <<ai_calls, analysis_result>>
             ELSE IF ai_analyzer = "None"
                  THEN /\ analysis_pc' = "returned"
                       /\ analysis_result' =
                             Analysed(analysed_pair, t, EmptyDict, settings)
                       /\ UNCHANGED ai_calls
                  ELSE /\ analysis_pc' = "ai"
                       /\ ai_calls' = ai_calls + 1
                       /\ UNCHANGED analysis_result
    /\ UNCHANGED <<analysed_pair, settings, ai_analyzer, response,
                   ai_analysis>>
    /\ UNCHANGED <<lease_vars, life_vars, scan_vars, cmd_vars, batch_vars,
                   reply_vars, mutex_vars, stats_vars, settings_vars>>

\* lines 2081-2151: analyze_pair has returned; the confidences are blended
\* and the Signal is built
analyze_ai ==
    /\ analysis_pc = "ai"
    /\ \E resp \in Responses :
          /\ response' = resp
          /\ ai_analysis' = analyze_pair(TRUE, resp)
          /\ analysis_result' =
                Analysed(analysed_pair, technicals, ai_analysis', settings)
    /\ analysis_pc' = "returned"
    /\ UNCHANGED <<analysed_pair, settings, ai_analyzer, technicals,
                   ai_calls>>
    /\ UNCHANGED <<lease_vars, life_vars, scan_vars, cmd_vars, batch_vars,
                   reply_vars, mutex_vars, stats_vars, settings_vars>>

AnalysisNext ==
    \/ analyze_market_data
    \/ analyze_technicals
    \/ analyze_ai

SpecAnalysis == Init /\ [][AnalysisNext]_vars

\* the scans a command handler can await: the pairs the scan finds active
\* when it starts (lines 1952-1953, 1999-2000) and the value it returns
AutoScanRuns ==
    UNION {{[pairs_to_scan |-> active,
             signal |-> scan_active_pairs(active, outcomes, "AUTO")] :
                outcomes \in Outcomes(active)} : active \in ActiveLists}

ManualScanRuns ==
    UNION {{[pairs_to_scan |-> active,
             signal |-> scan_active_pairs_manual(active, outcomes,
                                                 "MANUAL_FORCE")] :
                outcomes \in Outcomes(active)} : active \in ActiveLists}

\* lines 2618-2620: stats['signals_today'] at the time t of a tick:
\* if nigeria_time.hour == 0 and nigeria_time.minute < 5, it is set to 0
\* (5 minutes are the 300 seconds of the lease)
daily_reset(t, n) ==
    IF t >= Midnight /\ t - Midnight < LongLease THEN 0 ELSE n

\* a tick that scans whatever get_active_pairs returned
auto_scanner_any(p, active) ==
    /\ nigeria_time' = [nigeria_time EXCEPT ![p] = now]
    /\ scanner' = [scanner EXCEPT ![p] = "scanning"]
    /\ UNCHANGED last_auto_scan

\* lines 2626-2638: active_pairs = get_active_pairs(nigeria_time) of a tick
\* that is due; without active pairs last_auto_scan is set and the task
\* sleeps, otherwise it awaits self.scan_active_pairs(SignalType.AUTO)
auto_scanner_active(p, active) ==
    IF active = <<>>
    THEN /\ last_auto_scan' = [last_auto_scan EXCEPT ![p] = now]
         /\ scanner' = [scanner EXCEPT ![p] = "sleep"]
         /\ UNCHANGED nigeria_time
    ELSE /\ nigeria_time' = [nigeria_time EXCEPT ![p] = now]
         /\ scanner' = [scanner EXCEPT ![p] = "scanning"]
         /\ UNCHANGED last_auto_scan

\* the window of a Signal: entry_time + timedelta(minutes=5) (lines 405, 925,
\* 1260), the 300 seconds of the lease and of auto_scan_interval
SignalWindow == LongLease

\* a tick that sweeps a Signal whose window is over out of the registry
auto_scanner_sweeping(p) ==
    /\ LoopFree(p) /\ scanner[p] \in {"created", "sleep", "backoff"}
    /\ running[p] /\ is_primary_instance[p]
    /\ current_signal[p] # NoSignal
    /\ now - entry_time[p] >= SignalWindow
    /\ current_signal' = [current_signal EXCEPT ![p] = NoSignal]
    /\ entry_time' = [entry_time EXCEPT ![p] = Never]
    /\ scanner' = [scanner EXCEPT ![p] = "sleep"]
    /\ UNCHANGED <<lease_vars, life_vars, nigeria_time, last_auto_scan,
                   cmd_vars, batch_vars, reply_vars, analysis_vars,
                   mutex_vars, stats_vars, settings_vars>>

\* -------------------------------------------------------------- auto_scanner
\* lines 2606-2636 and 2657: the task runs for the first time, or
\* asyncio.sleep(60) is over: the while condition and one iteration up to
\* its first await
auto_scanner(p) ==
    /\ LoopFree(p) /\ scanner[p] \in {"created", "sleep", "backoff"}
    /\ IF ~(running[p] /\ is_primary_instance[p])
       THEN /\ scanner' = [scanner EXCEPT ![p] = "done"]
            /\ UNCHANGED <<nigeria_time, last_auto_scan, signals_today>>
       ELSE /\ signals_today' = [signals_today EXCEPT
                                   ![p] = daily_reset(now, @)]
            /\ IF /\ current_signal[p] = NoSignal
                  /\ \/ last_auto_scan[p] = Never
                     \/ now - last_auto_scan[p] >= auto_scan_interval[p]
               THEN \E active \in ActiveLists :
                       auto_scanner_active(p, active)
               ELSE /\ scanner' = [scanner EXCEPT ![p] = "sleep"]
                    /\ UNCHANGED <<nigeria_time, last_auto_scan>>
    /\ UNCHANGED <<lease_vars, life_vars, current_signal, entry_time, cmd_vars,
                   batch_vars, reply_vars, analysis_vars, mutex_vars,
                   settings_vars>>

\* lines 2640-2657: the scan is over
auto_scanner_scanned(p, signal) ==
    /\ LoopFree(p) /\ scanner[p] = "scanning"
    /\ current_signal' = [current_signal EXCEPT ![p] =
           IF signal # NoSignal /\ signal.confidence >= AutoScannerConfidence
           THEN signal ELSE @]
    /\ entry_time' = [entry_time EXCEPT ![p] =
           IF signal # NoSignal /\ signal.confidence >= AutoScannerConfidence
           THEN now ELSE @]
    /\ IF signal # NoSignal /\ signal.confidence >= AutoScannerConfidence
       THEN /\ signals_today[p] < MaxSignalsToday
            /\ signals_today' = [signals_today EXCEPT ![p] = @ + 1]
       ELSE UNCHANGED signals_today
    /\ last_auto_scan' = [last_auto_scan EXCEPT ![p] = nigeria_time[p]]
    /\ nigeria_time' = [nigeria_time EXCEPT ![p] = 0]
    /\ scanner' = [scanner EXCEPT ![p] = "sleep"]
    /\ UNCHANGED <<lease_vars, life_vars, cmd_vars, batch_vars,
                   reply_vars, analysis_vars, mutex_vars, settings_vars>>

\* an auto_scanner without the try of line 2613: the exception ends the task
auto_scanner_unguarded(p) ==
    /\ LoopFree(p) /\ scanner[p] \in {"created", "sleep", "backoff"}
    /\ running[p] /\ is_primary_instance[p]
    /\ scanner' = [scanner EXCEPT ![p] = "done"]
    /\ UNCHANGED <<lease_vars, life_vars, nigeria_time, current_signal,
                   entry_time,
                   last_auto_scan, cmd_vars, batch_vars,
                   reply_vars, analysis_vars,
                   mutex_vars, stats_vars, settings_vars>>

\* lines 2613-2661: an iteration raises before its first await (in
\* get_nigeria_time, get_active_pairs, the stats): `except Exception` logs
\* it and the task goes to await asyncio.sleep(300)
auto_scanner_raises(p) ==
    /\ LoopFree(p) /\ scanner[p] \in {"created", "sleep", "backoff"}
    /\ running[p] /\ is_primary_instance[p]
    /\ scanner' = [scanner EXCEPT ![p] = "backoff"]
    /\ UNCHANGED <<lease_vars, life_vars, nigeria_time, current_signal,
                   entry_time,
                   last_auto_scan, cmd_vars, batch_vars,
                   reply_vars, analysis_vars,
                   mutex_vars, stats_vars, settings_vars>>

\* lines 2640-2651, 2659-2661: the scan found a Signal, which is stored, and
\* format_signal_for_admin or send_admin raises
auto_scanner_scanned_raises(p, signal) ==
    /\ LoopFree(p) /\ scanner[p] = "scanning"
    /\ signal # NoSignal /\ signal.confidence >= AutoScannerConfidence
    /\ current_signal' = [current_signal EXCEPT ![p] = signal]
    /\ entry_time' = [entry_time EXCEPT ![p] = now]
    /\ signals_today[p] < MaxSignalsToday
    /\ signals_today' = [signals_today EXCEPT ![p] = @ + 1]
    /\ last_auto_scan' = [last_auto_scan EXCEPT ![p] = nigeria_time[p]]
    /\ nigeria_time' = [nigeria_time EXCEPT ![p] = 0]
    /\ scanner' = [scanner EXCEPT ![p] = "backoff"]
    /\ UNCHANGED <<lease_vars, life_vars, cmd_vars, batch_vars,
                   reply_vars, analysis_vars, mutex_vars, settings_vars>>

\* ---------------------------------------------------------- command handlers
\* updates are handled one at a time, while the application is polling
Dispatch(p) == LoopFree(p) /\ main[p] = "polling" /\ handler[p] = "idle"

\* lines 914-964 (cmd_auto) and 394-445 (cmd_manual): up to the scan, or to
\* the `await update.message.reply_text(...)` that precedes a return
ScanCommand(p, name) ==
    /\ Dispatch(p)
    /\ IF ~is_primary_instance[p]
       THEN /\ reply' = [reply EXCEPT ![p] = "Secondary Instance"]
            /\ handler' = [handler EXCEPT ![p] = "reply_text"]
       ELSE IF current_signal[p] # NoSignal
       THEN /\ reply' = [reply EXCEPT ![p] = "Signal Active"]
            /\ handler' = [handler EXCEPT ![p] = "reply_text"]
       ELSE \E active_pairs \in ActiveLists :
              IF active_pairs = <<>>
              THEN /\ reply' = [reply EXCEPT
                                  ![p] = "No Active Trading Pairs"]
                   /\ handler' = [handler EXCEPT ![p] = "reply_text"]
              ELSE /\ reply' = [reply EXCEPT ![p] = "Scanning"]
                   /\ handler' = [handler EXCEPT ![p] = name]
    /\ scanned' = [scanned EXCEPT ![p] = <<>>]
    /\ UNCHANGED <<lease_vars, life_vars, scan_vars, pair, batch_vars,
                   analysis_vars,
                   mutex_vars, stats_vars, settings_vars>>

cmd_auto(p) == ScanCommand(p, "cmd_auto")

\* lines 966-984: scan_active_pairs is over; the Signal is stored and sent,
\* or the handler replies that there is none
cmd_auto_scanned(p, scan) ==
    /\ LoopFree(p) /\ handler[p] = "cmd_auto"
    /\ current_signal' = [current_signal EXCEPT ![p] =
           IF scan.signal = NoSignal THEN @ ELSE scan.signal]
    /\ entry_time' = [entry_time EXCEPT ![p] =
           IF scan.signal = NoSignal THEN @ ELSE now]
    /\ reply' = [reply EXCEPT ![p] =
           IF scan.signal = NoSignal
           THEN "No strong signals found" ELSE "SIGNAL"]
    /\ scanned' = [scanned EXCEPT ![p] = scan.pairs_to_scan]
    /\ handler' = [handler EXCEPT ![p] = "reply_text"]
    /\ UNCHANGED <<lease_vars, life_vars, scanner, nigeria_time,
                   last_auto_scan, pair, batch_vars,
                   analysis_vars,
                   mutex_vars, stats_vars, settings_vars>>

\* the reply_text a handler awaits before it returns is over; or
\* send_signal (send_forced_signal) is over and the handler counts the
\* Signal (lines 467-469, 983-985, 1079-1081, 1145-1147) and returns
reply_sent(p) ==
    /\ LoopFree(p) /\ handler[p] = "reply_text"
    /\ handler' = [handler EXCEPT ![p] = "idle"]
    /\ reply' = [reply EXCEPT ![p] = "none"]
    /\ scanned' = [scanned EXCEPT ![p] = <<>>]
    /\ IF reply[p] \in {"SIGNAL", "FORCED SIGNAL"}
       THEN /\ signals_today[p] < MaxSignalsToday
            /\ signals_today' = [signals_today EXCEPT ![p] = @ + 1]
       ELSE UNCHANGED signals_today
    /\ UNCHANGED <<lease_vars, life_vars, scan_vars, pair, batch_vars,
                   analysis_vars, mutex_vars, settings_vars>>

cmd_manual(p) == ScanCommand(p, "cmd_manual")

\* lines 447-470: scan_active_pairs_manual is over
cmd_manual_scanned(p, scan) ==
    /\ LoopFree(p) /\ handler[p] = "cmd_manual"
    /\ current_signal' = [current_signal EXCEPT ![p] =
           IF scan.signal = NoSignal THEN @ ELSE scan.signal]
    /\ entry_time' = [entry_time EXCEPT ![p] =
           IF scan.signal = NoSignal THEN @ ELSE now]
    /\ reply' = [reply EXCEPT ![p] =
           IF scan.signal = NoSignal
           THEN "No signals found even with manual override"
           ELSE "FORCED SIGNAL"]
    /\ scanned' = [scanned EXCEPT ![p] = scan.pairs_to_scan]
    /\ handler' = [handler EXCEPT ![p] = "reply_text"]
    /\ UNCHANGED <<lease_vars, life_vars, scanner, nigeria_time,
                   last_auto_scan, pair, batch_vars,
                   analysis_vars,
                   mutex_vars, stats_vars, settings_vars>>

\* lines 993-1058 (cmd_analyze) and 1089-1127 (cmd_fast): up to the analysis;
\* is_active: the pair named (or defaulted) exists and is in trading hours
PairCommand(p, name, pr, is_active) ==
    /\ Dispatch(p)
    /\ IF current_signal[p] # NoSignal \/ ~is_active
       THEN UNCHANGED <<handler, pair>>
       ELSE /\ handler' = [handler EXCEPT ![p] = name]
            /\ pair' = [pair EXCEPT ![p] = pr]
    /\ UNCHANGED <<lease_vars, life_vars, scan_vars, batch_vars,
                   reply_vars, analysis_vars,
                   mutex_vars, stats_vars, settings_vars>>

\* lines 1060-1081 and 1129-1147: analyze_single_pair is over
PairAnalysed(p, name, signal_type, confidence) ==
    /\ LoopFree(p) /\ handler[p] = name
    /\ current_signal' = [current_signal EXCEPT ![p] =
           IF confidence = NoResult \/ confidence < min_confidence
           THEN @ ELSE Signal(pair[p], signal_type, confidence)]
    /\ entry_time' = [entry_time EXCEPT ![p] =
           IF confidence = NoResult \/ confidence < min_confidence
           THEN @ ELSE now]
    /\ handler' = [handler EXCEPT ![p] =
           IF confidence = NoResult \/ confidence < min_confidence
           THEN "idle" ELSE "reply_text"]
    /\ reply' = [reply EXCEPT ![p] =
           IF confidence = NoResult \/ confidence < min_confidence
           THEN @ ELSE "SIGNAL"]
    /\ pair' = [pair EXCEPT ![p] = "none"]
    /\ UNCHANGED <<batch_vars, scanned, analysis_vars,
                   mutex_vars, stats_vars, settings_vars>>
    /\ UNCHANGED <<lease_vars, life_vars, scanner, nigeria_time,
                   last_auto_scan>>

cmd_analyze(p, pr, is_active) == PairCommand(p, "cmd_analyze", pr, is_active)

cmd_analyze_analysed(p, confidence) ==
    PairAnalysed(p, "cmd_analyze", "MANUAL_DETAILED", confidence)

cmd_fast(p, pr, is_active) == PairCommand(p, "cmd_fast", pr, is_active)

cmd_fast_analysed(p, confidence) ==
    PairAnalysed(p, "cmd_fast", "MANUAL_FAST", confidence)

\* lines 1330-1336
cmd_clear(p) ==
    /\ Dispatch(p)
    /\ current_signal' = [current_signal EXCEPT ![p] = NoSignal]
    /\ entry_time' = [entry_time EXCEPT ![p] = Never]
    /\ UNCHANGED <<lease_vars, life_vars, scanner, nigeria_time,
                   last_auto_scan, cmd_vars, batch_vars,
                   reply_vars, analysis_vars,
                   mutex_vars, stats_vars, settings_vars>>

\* lines 1838-1860 of handle_callback: the outcome of acquire_lock
take_lock_result(p) ==
    /\ IF pc'[p] # "idle"
       THEN /\ handler' = [handler EXCEPT ![p] = "take_lock"]
            /\ UNCHANGED <<is_primary_instance, maintainer>>
       ELSE /\ handler' = [handler EXCEPT ![p] = "idle"]
            /\ IF result'[p] = "true"
               THEN /\ is_primary_instance' =
                           [is_primary_instance EXCEPT ![p] = TRUE]
                    /\ maintainer' = [maintainer EXCEPT ![p] = "created"]
               ELSE UNCHANGED <<is_primary_instance, maintainer>>
    /\ UNCHANGED <<running, auto_scan_interval, main, attempt, wait_time,
                   scan_vars, pair, batch_vars, reply_vars, analysis_vars,
                   mutex_vars, stats_vars, settings_vars>>

\* the callback "take_lock" (a lock_maintainer task that is still running
\* when the button is pressed is not modelled a second time)
take_lock(p) ==
    /\ \/ /\ Dispatch(p)
          /\ maintainer[p] \in {"none", "done"}
          /\ acquire_lock(p, LongLease)
       \/ /\ handler[p] = "take_lock"
          /\ \/ acquire_trylock(p)
             \/ acquire_write(p)
             \/ acquire_readlock(p)
             \/ acquire_force_open(p)
             \/ acquire_force_lock(p)
             \/ fallback_open(p)
             \/ fallback_write(p)
    /\ take_lock_result(p)

\* ---------------------------------------------------------------------- stop
\* lines 1772 / 328-335: self.running = False, await self.app.stop()
stop(p) ==
    /\ LoopFree(p) /\ main[p] = "polling" /\ handler[p] = "idle"
    /\ running' = [running EXCEPT ![p] = FALSE]
    /\ main' = [main EXCEPT ![p] = "stopping"]
    /\ UNCHANGED <<lease_vars, is_primary_instance, auto_scan_interval,
                   attempt, wait_time, maintainer, scan_vars, cmd_vars,
                   batch_vars, reply_vars, analysis_vars,
                   mutex_vars, stats_vars, settings_vars>>

\* lines 337-339: release_lock() when is_primary_instance, and its steps
stop_release(p) ==
    /\ \/ /\ LoopFree(p) /\ main[p] = "stopping"
          /\ IF is_primary_instance[p]
             THEN release_lock(p)
             ELSE UNCHANGED lease_vars
       \/ /\ main[p] = "stop_release"
          /\ release_remove(p)
    /\ main' = [main EXCEPT
                  ![p] = IF pc'[p] # "idle" THEN "stop_release" ELSE "stopped"]
    /\ UNCHANGED <<is_primary_instance, running, auto_scan_interval, attempt,
                   wait_time, maintainer, scan_vars, cmd_vars, batch_vars,
                   reply_vars, analysis_vars,
                   mutex_vars, stats_vars, settings_vars>>

\* the process ends (main() returns, or it is killed): nothing of it remains
Exit(p) ==
    /\ Crash(p)
    /\ is_primary_instance' = [is_primary_instance EXCEPT ![p] = FALSE]
    /\ running' = [running EXCEPT ![p] = FALSE]
    /\ auto_scan_interval' = [auto_scan_interval EXCEPT ![p] = LongLease]
    /\ main' = [main EXCEPT ![p] = "dead"]
    /\ attempt' = [attempt EXCEPT ![p] = 0]
    /\ wait_time' = [wait_time EXCEPT ![p] = 0]
    /\ maintainer' = [maintainer EXCEPT ![p] = "none"]
    /\ scanner' = [scanner EXCEPT ![p] = "none"]
    /\ nigeria_time' = [nigeria_time EXCEPT ![p] = 0]
    /\ current_signal' = [current_signal EXCEPT ![p] = NoSignal]
    /\ entry_time' = [entry_time EXCEPT ![p] = Never]
    /\ last_auto_scan' = [last_auto_scan EXCEPT ![p] = Never]
    /\ handler' = [handler EXCEPT ![p] = "idle"]
    /\ pair' = [pair EXCEPT ![p] = "none"]
    /\ reply' = [reply EXCEPT ![p] = "none"]
    /\ scanned' = [scanned EXCEPT ![p] = <<>>]
    /\ signal_lock' = [signal_lock EXCEPT ![p] = "none"]
    /\ signals_today' = [signals_today EXCEPT ![p] = 0]
    /\ UNCHANGED <<batch_vars, analysis_vars, settings_vars>>

\* ------------------------------------------ the processes of the bot
\* The calls of the instance manager are taken one at a time here: a
\* process starts or continues a call only while no other process is inside
\* one - except that a process blocked in portalocker.lock(LOCK_EX), or one
\* between the unlock/close and the os.remove of release_lock, does not
\* hold the others back.  How the file operations of concurrent calls
\* interleave otherwise is the subject of Spec and SpecRace.
Quiet(p) ==
    \A q \in Procs \ {p} :
        \/ pc[q] \in {"idle", "dead", "rl_closed"}
        \/ pc[q] = "acq_force_opened" /\ ~FlockFree(lock_file[q])

\* Every scan of this specification comes back without a Signal and no
\* iteration of auto_scanner raises; the Signals scans find and the
\* exceptions are the subject of SpecRegistry.
BotNext ==
    \/ \E p \in Procs : Quiet(p) /\ setup_polling(p) /\ UNCHANGED call_pre
    \/ \E p \in Procs : Quiet(p) /\ setup_acquire(p) /\ UNCHANGED call_pre
    \/ \E p \in Procs : setup_secondary(p)
    \/ \E p \in Procs : setup_complete(p)
    \/ \E p \in Procs : maintainer_start(p)
    \/ \E p \in Procs : maintainer_check(p)
    \/ \E p \in Procs :
          Quiet(p) /\ maintainer_reacquire(p) /\ UNCHANGED call_pre
    \/ \E p \in Procs : Quiet(p) /\ maintainer_renew(p) /\ UNCHANGED call_pre
    \/ \E p \in Procs : auto_scanner(p)
    \/ \E p \in Procs : auto_scanner_scanned(p, NoSignal)
    \/ \E p \in Procs : Quiet(p) /\ take_lock(p) /\ UNCHANGED call_pre
    \/ \E p \in Procs : stop(p)
    \/ \E p \in Procs : Quiet(p) /\ stop_release(p) /\ UNCHANGED call_pre
    \/ \E p \in Procs : Exit(p)
    \/ Tick /\ UNCHANGED bot_vars

SpecBot == Init /\ [][BotNext]_vars

\* ----------------------------- one primary process: registry and scheduler
FirstProc == CHOOSE p \in Procs : \A q \in Procs : p <= q
\* the inode the first open(path, 'w') creates
FirstInode == CHOOSE i \in Inodes : \A j \in Inodes : i <= j

\* FirstProc has completed setup_polling as primary, with portalocker, at
\* time 0; its lock_maintainer ran during the welcome message; no other
\* process has been started
InitRegistry ==
    /\ now = 0
    /\ PORTALOCKER_AVAILABLE = TRUE
    /\ path = FirstInode
    /\ content = [i \in Inodes |->
                    IF i = FirstInode
                    THEN LockData(FirstProc, 0, LongLease) ELSE Empty]
    /\ alive = [p \in Procs |-> TRUE]
    /\ pc = [p \in Procs |-> "idle"]
    /\ lock_held = [p \in Procs |-> p = FirstProc]
    /\ lock_file = [p \in Procs |->
                      IF p = FirstProc THEN FirstInode ELSE NoFile]
    /\ flocked = [p \in Procs |-> p = FirstProc]
    /\ f = [p \in Procs |-> NoFile]
    /\ lock_data = [p \in Procs |-> Empty]
    /\ timeout = [p \in Procs |-> 0]
    /\ result = [p \in Procs |-> IF p = FirstProc THEN "true" ELSE "none"]
    /\ call_pre = [p \in Procs |-> NoCall]
    /\ lease_expires = [p \in Procs |-> IF p = FirstProc THEN LongLease ELSE 0]
    /\ is_primary_instance = [p \in Procs |-> p = FirstProc]
    /\ running = [p \in Procs |-> p = FirstProc]
    /\ auto_scan_interval = [p \in Procs |-> LongLease]
    /\ main = [p \in Procs |-> IF p = FirstProc THEN "polling" ELSE "start"]
    /\ attempt = [p \in Procs |-> 0]
    /\ wait_time = [p \in Procs |-> 0]
    /\ maintainer = [p \in Procs |-> IF p = FirstProc THEN "done" ELSE "none"]
    /\ scanner = [p \in Procs |-> IF p = FirstProc THEN "created" ELSE "none"]
    /\ nigeria_time = [p \in Procs |-> 0]
    /\ current_signal = [p \in Procs |-> NoSignal]
    /\ entry_time = [p \in Procs |-> Never]
    /\ signal_lock = [p \in Procs |-> "none"]
    /\ signals_today = [p \in Procs |-> 0]
    /\ manual_threshold = [p \in Procs |-> Float(manual_confidence_threshold)]
    /\ settings_history = [p \in Procs |-> 0]
    /\ last_auto_scan = [p \in Procs |-> Never]
    /\ handler = [p \in Procs |-> "idle"]
    /\ pair = [p \in Procs |-> "none"]
    /\ NoScan
    /\ NoAnalysis
    /\ reply = [p \in Procs |-> "none"]
    /\ scanned = [p \in Procs |-> <<>>]

RegistryNext ==
    \/ \E p \in Procs : auto_scanner(p)
    \/ \E p \in Procs, signal \in AutoScans : auto_scanner_scanned(p, signal)
    \/ \E p \in Procs : auto_scanner_raises(p)
    \/ \E p \in Procs, signal \in AutoScans :
          auto_scanner_scanned_raises(p, signal)
    \/ \E p \in Procs : cmd_auto(p)
    \/ \E p \in Procs, scan \in AutoScanRuns : cmd_auto_scanned(p, scan)
    \/ \E p \in Procs : cmd_manual(p)
    \/ \E p \in Procs, scan \in ManualScanRuns :
          cmd_manual_scanned(p, scan)
    \/ \E p \in Procs : reply_sent(p)
    \/ \E p \in Procs, pr \in Pairs, is_active \in BOOLEAN :
          cmd_analyze(p, pr, is_active)
    \/ \E p \in Procs, confidence \in Confidences \cup {NoResult} :
          cmd_analyze_analysed(p, confidence)
    \/ \E p \in Procs, pr \in Pairs, is_active \in BOOLEAN :
          cmd_fast(p, pr, is_active)
    \/ \E p \in Procs, confidence \in Confidences \cup {NoResult} :
          cmd_fast_analysed(p, confidence)
    \/ \E p \in Procs : cmd_clear(p)
    \/ \E p \in Procs : stop(p)
    \/ \E p \in Procs : stop_release(p) /\ UNCHANGED call_pre
    \/ Tick /\ UNCHANGED bot_vars

SpecRegistry == InitRegistry /\ [][RegistryNext]_vars

\* ------------------------- the registry mutex, statement by statement
\* SpecRegistry takes the statements between two awaits as one step.  Here
\* the three statements of `with self.signal_lock: self.current_signal = x`
\* are steps of their own, for the scheduler (lines 2640-2642), for /manual
\* (lines 462-463) and for /clear (lines 1334-1336).

\* the positions of a task inside the with block: the lock is acquired, the
\* slot is assigned
InWith == {"with_signal_lock", "assigned"}

\* the event loop runs one task at a time: a task leaves a suspension point
\* only while no task of the process is between two suspension points
LoopIdle(p) == scanner[p] \notin InWith /\ handler[p] \notin InWith

\* the locals of a scan other than the Signal it returns
scan_locals == <<scan_pc, scan_threshold, pairs_to_scan, task_result,
                 batch_start, completed, all_signals>>

\* a with block that is still open when the task awaits
held_signal_lock(task) == task

\* the end of the with block (threading.Lock.__exit__): the lock is free
exit_signal_lock(task) == "none"

\* lines 2638-2641 and 2654-2657: the scan auto_scanner awaited is over;
\* with a Signal of confidence 75 or more the task acquires signal_lock
\* (acquire() returns only when the lock is free), otherwise it goes to
\* sleep as in auto_scanner_scanned
scanner_acquire(p, signal) ==
    /\ LoopIdle(p)
    /\ IF signal # NoSignal /\ signal.confidence >= AutoScannerConfidence
       THEN /\ LoopFree(p) /\ scanner[p] = "scanning"
            /\ signal_lock[p] = "none"
            /\ signal_lock' = [signal_lock EXCEPT ![p] = "auto_scanner"]
            /\ best_signal' = signal
            /\ scanner' = [scanner EXCEPT ![p] = "with_signal_lock"]
            /\ UNCHANGED <<lease_vars, life_vars, nigeria_time,
                           current_signal, entry_time, last_auto_scan,
                           cmd_vars, scan_locals, reply_vars, analysis_vars,
                           stats_vars, settings_vars>>
       ELSE auto_scanner_scanned(p, signal)

\* line 2642: self.current_signal = signal
scanner_assign(p) ==
    /\ scanner[p] = "with_signal_lock"
    /\ current_signal' = [current_signal EXCEPT ![p] = best_signal]
    /\ entry_time' = [entry_time EXCEPT ![p] = now]
    /\ scanner' = [scanner EXCEPT ![p] = "assigned"]
    /\ UNCHANGED <<lease_vars, life_vars, nigeria_time, last_auto_scan,
                   cmd_vars, batch_vars, reply_vars, analysis_vars,
                   mutex_vars, stats_vars, settings_vars>>

\* lines 2642-2651: the with block ends, the statistics are updated and the
\* task awaits self.send_admin
scanner_release(p) ==
    /\ scanner[p] = "assigned"
    /\ signal_lock' = [signal_lock EXCEPT
                         ![p] = exit_signal_lock("auto_scanner")]
    /\ best_signal' = NoSignal
    /\ last_auto_scan' = [last_auto_scan EXCEPT ![p] = nigeria_time[p]]
    /\ nigeria_time' = [nigeria_time EXCEPT ![p] = 0]
    /\ scanner' = [scanner EXCEPT ![p] = "send_admin"]
    /\ signals_today[p] < MaxSignalsToday
    /\ signals_today' = [signals_today EXCEPT ![p] = @ + 1]
    /\ UNCHANGED <<lease_vars, life_vars, current_signal, entry_time,
                   cmd_vars, scan_locals, reply_vars, analysis_vars,
                   settings_vars>>

\* lines 2651-2661: send_admin is over and the task awaits
\* asyncio.sleep(60), or it raised and the task awaits asyncio.sleep(300)
scanner_sent(p) ==
    /\ LoopFree(p) /\ LoopIdle(p) /\ scanner[p] = "send_admin"
    /\ \E raised \in BOOLEAN :
          scanner' = [scanner EXCEPT
                        ![p] = IF raised THEN "backoff" ELSE "sleep"]
    /\ UNCHANGED <<lease_vars, life_vars, nigeria_time, current_signal,
                   entry_time, last_auto_scan, cmd_vars, batch_vars,
                   reply_vars, analysis_vars,
                   mutex_vars, stats_vars, settings_vars>>

\* lines 448-462: scan_active_pairs_manual is over; without a Signal the
\* handler replies as in cmd_manual_scanned, with one it acquires
\* signal_lock
manual_acquire(p, scan) ==
    /\ LoopIdle(p)
    /\ IF scan.signal = NoSignal
       THEN cmd_manual_scanned(p, scan)
       ELSE /\ LoopFree(p) /\ handler[p] = "cmd_manual"
            /\ signal_lock[p] = "none"
            /\ signal_lock' = [signal_lock EXCEPT ![p] = "handler"]
            /\ best_signal' = scan.signal
            /\ scanned' = [scanned EXCEPT ![p] = scan.pairs_to_scan]
            /\ handler' = [handler EXCEPT ![p] = "with_signal_lock"]
            /\ UNCHANGED <<lease_vars, life_vars, scan_vars, pair,
                           scan_locals, reply, analysis_vars, stats_vars,
                           settings_vars>>

\* lines 1330-1335: /clear; without a Signal the handler replies, with one
\* it acquires signal_lock to assign None
clear_acquire(p) ==
    /\ Dispatch(p) /\ LoopIdle(p)
    /\ IF current_signal[p] = NoSignal
       THEN /\ reply' = [reply EXCEPT ![p] = "No signal to clear"]
            /\ handler' = [handler EXCEPT ![p] = "reply_text"]
            /\ UNCHANGED signal_lock
       ELSE /\ signal_lock[p] = "none"
            /\ signal_lock' = [signal_lock EXCEPT ![p] = "handler"]
            /\ handler' = [handler EXCEPT ![p] = "with_signal_lock"]
            /\ UNCHANGED reply
    /\ UNCHANGED <<lease_vars, life_vars, scan_vars, pair, batch_vars,
                   scanned, analysis_vars, stats_vars, settings_vars>>

\* lines 463 and 1336: self.current_signal = signal, = None
handler_assign(p) ==
    /\ handler[p] = "with_signal_lock"
    /\ current_signal' = [current_signal EXCEPT ![p] = best_signal]
    /\ entry_time' = [entry_time EXCEPT
                        ![p] = IF best_signal = NoSignal THEN Never ELSE now]
    /\ handler' = [handler EXCEPT ![p] = "assigned"]
    /\ UNCHANGED <<lease_vars, life_vars, scanner, nigeria_time,
                   last_auto_scan, pair, batch_vars, reply_vars,
                   analysis_vars,
                   mutex_vars, stats_vars, settings_vars>>

\* lines 463-465 and 1336-1343: the with block ends and the handler awaits
\* send_forced_signal, or the reply_text of /clear
handler_release(p) ==
    /\ handler[p] = "assigned"
    /\ signal_lock' = [signal_lock EXCEPT ![p] = exit_signal_lock("handler")]
    /\ reply' = [reply EXCEPT ![p] =
           IF current_signal[p] = NoSignal
           THEN "Signal cleared" ELSE "FORCED SIGNAL"]
    /\ best_signal' = NoSignal
    /\ handler' = [handler EXCEPT ![p] = "reply_text"]
    /\ UNCHANGED <<lease_vars, life_vars, scan_vars, pair, scan_locals,
                   scanned, analysis_vars, stats_vars, settings_vars>>

MutexNext ==
    \/ \E p \in Procs : LoopIdle(p) /\ auto_scanner(p)
    \/ \E p \in Procs, signal \in AutoScans : scanner_acquire(p, signal)
    \/ \E p \in Procs : scanner_assign(p)
    \/ \E p \in Procs : scanner_release(p)
    \/ \E p \in Procs : scanner_sent(p)
    \/ \E p \in Procs : LoopIdle(p) /\ cmd_manual(p)
    \/ \E p \in Procs, scan \in ManualScanRuns : manual_acquire(p, scan)
    \/ \E p \in Procs : clear_acquire(p)
    \/ \E p \in Procs : handler_assign(p)
    \/ \E p \in Procs : handler_release(p)
    \/ \E p \in Procs : LoopIdle(p) /\ reply_sent(p)
    \/ Tick /\ UNCHANGED bot_vars

SpecMutex == InitRegistry /\ [][MutexNext]_vars

\* ------------------------------------------- the settings commands
\* data_models.py lines 74-97, BotSettings.set for the manual threshold:
\* the value is stored, an entry is appended to the history, the history
\* is cut to its last 50 entries; what it returns is what save_settings
\* returns (saved)
BotSettings_set(p, value) ==
    /\ manual_threshold' = [manual_threshold EXCEPT ![p] = value]
    /\ settings_history' = [settings_history EXCEPT ![p] =
           IF @ + 1 > MaxHistory THEN MaxHistory ELSE @ + 1]

\* the length of the history after n calls of BotSettings.set
RECURSIVE HistoryAfter(_, _)
HistoryAfter(len, n) ==
    IF n = 0 THEN len
    ELSE HistoryAfter(IF len + 1 > MaxHistory THEN MaxHistory ELSE len + 1,
                      n - 1)

\* lines 534-586: /setmanualthreshold with the arguments args, up to the
\* reply_text the handler awaits last
cmd_setmanualthreshold(p, args, saved) ==
    /\ Dispatch(p)
    /\ handler' = [handler EXCEPT ![p] = "reply_text"]
    /\ IF args = <<>>
       THEN /\ reply' = [reply EXCEPT ![p] = "Usage"]
            /\ UNCHANGED settings_vars
       ELSE LET threshold == float(args[1]) IN
            IF threshold = ValueError
            THEN /\ reply' = [reply EXCEPT ![p] = "Invalid number"]
                 /\ UNCHANGED settings_vars
            ELSE IF threshold_invalid(threshold)
            THEN /\ reply' = [reply EXCEPT ![p] = "Invalid threshold"]
                 /\ UNCHANGED settings_vars
            ELSE /\ BotSettings_set(p, threshold)
                 /\ reply' = [reply EXCEPT ![p] =
                        IF saved THEN "Manual Threshold Updated"
                        ELSE "Failed to save settings"]
    /\ UNCHANGED <<lease_vars, life_vars, scan_vars, pair, batch_vars,
                   scanned, analysis_vars, mutex_vars, stats_vars>>

\* lines 797-839: /resetparams sets the five parameters to their defaults,
\* each with BotSettings.set
cmd_resetparams(p) ==
    /\ Dispatch(p)
    /\ handler' = [handler EXCEPT ![p] = "reply_text"]
    /\ reply' = [reply EXCEPT ![p] = "PARAMETERS RESET TO DEFAULTS"]
    /\ settings' = DefaultSettings
    /\ manual_threshold' = [manual_threshold EXCEPT
                              ![p] = Float(manual_confidence_threshold)]
    /\ settings_history' = [settings_history EXCEPT
                              ![p] = HistoryAfter(@, 5)]
    /\ UNCHANGED <<lease_vars, life_vars, scan_vars, pair, batch_vars,
                   scanned, analysis_pc, analysed_pair, ai_analyzer,
                   technicals, response, ai_analysis, ai_calls,
                   analysis_result, mutex_vars, stats_vars>>

SettingsNext ==
    \/ \E p \in Procs, word \in Arguments, saved \in BOOLEAN :
          cmd_setmanualthreshold(p, <<word>>, saved)
    \/ \E p \in Procs : cmd_setmanualthreshold(p, <<>>, TRUE)
    \/ \E p \in Procs : cmd_resetparams(p)
    \/ \E p \in Procs : reply_sent(p)

SpecSettings == InitRegistry /\ [][SettingsNext]_vars

\* ======================================================================
\*                              THE CLAIMS
\* ======================================================================

\* what a call saw when it began: for a call that returns within its first
\* step the record now at the path, otherwise the recorded snapshot
PreCall(p) == IF pc[p] = "idle" THEN Snapshot(ReadRecord) ELSE call_pre[p]

\* no other process took a step of a manager method since the call began
Undisturbed(p) == PreCall(p).at >= 0

NamesOther(rec, p) == Parsable(rec) /\ rec.instance_id # p

AcquirePcs == {"acq_opened", "acq_locked", "acq_readlock", "acq_force",
               "acq_force_opened", "fb_write", "fb_opened"}

\* this step is the return of an acquire_lock(timeout=tmo) call of p
AcquireReturn(p, tmo) ==
    /\ alive'[p] /\ pc'[p] = "idle"
    /\ \/ pc[p] = "idle" /\ acquire_lock(p, tmo)
       \/ pc[p] \in AcquirePcs /\ timeout[p] = tmo

\* this step is the return of a renew_lock(timeout=tmo) call of p
RenewReturn(p, tmo) ==
    /\ alive'[p] /\ pc'[p] = "idle"
    /\ \/ pc[p] = "idle" /\ renew_lock(p, tmo)
       \/ pc[p] = "rn_opened" /\ timeout[p] = tmo

\* this step is the return of a release_lock() call of p
ReleaseReturn(p) ==
    /\ alive'[p] /\ pc'[p] = "idle"
    /\ \/ pc[p] = "idle" /\ release_lock(p)
       \/ pc[p] = "rl_closed"

\* p believes it holds the lease and the lease it wrote has not expired (a
\* process that is inside release_lock and has already unlocked and closed
\* its descriptor is not counted)
LeaseValid(p) ==
    lock_held[p] /\ pc[p] # "rl_closed" /\ now <= lease_expires[p]

\* C1: at no instant do two distinct processes both have lock_held = true
\* with a lease that has not expired.
C1_AtMostOneValidHolder ==
    \A p, q \in Procs : LeaseValid(p) /\ LeaseValid(q) => p = q

\* C2: once both of two concurrent first acquire calls against the
\* unclaimed record have returned, exactly one returned true and the other
\* false (checked under SpecRace).
C2_ExactlyOneWins ==
    (\A p \in Procs : result[p] # "none")
        => Cardinality({p \in Procs : result[p] = "true"}) = 1

\* C4: an acquire call that began when the record named another process
\* with an unexpired lease, and returns while that lease is still unexpired,
\* returns false and does not make the caller holder - whatever timeout it
\* was given and whether or not the recorded holder is still running.
C4_UnexpiredLeaseNotTaken ==
    [][\A p \in Procs, tmo \in Timeouts :
          ( /\ AcquireReturn(p, tmo)
            /\ Undisturbed(p)
            /\ ~lock_held[p]
            /\ NamesOther(PreCall(p).rec, p)
            /\ now <= PreCall(p).rec.expires )
          => (result'[p] = "false" /\ ~lock_held'[p])]_vars

\* C5: an acquire call that began when the record named another process
\* with a stale lease (now > expires) returns true, and afterwards the
\* record names the caller with expires = now + timeout, now being a time
\* of the call. (Stated for a caller that passes the duration the stale
\* lease was written with, so that "stale" means the same to both.)
C5_StaleLeaseTaken ==
    [][\A p \in Procs, tmo \in Timeouts :
          ( /\ AcquireReturn(p, tmo)
            /\ Undisturbed(p)
            /\ ~lock_held[p]
            /\ NamesOther(PreCall(p).rec, p)
            /\ PreCall(p).rec.expires - PreCall(p).rec.timestamp = tmo
            /\ PreCall(p).at > PreCall(p).rec.expires )
          => ( /\ result'[p] = "true"
               /\ ReadRecord'.instance_id = p
               /\ ReadRecord'.expires - tmo \in PreCall(p).at..now )]_vars

\* C6: an acquire call that returns false leaves the record as it was when
\* the call began, and while some process holds the lease and an acquire
\* attempt is in progress a reader never finds the file empty.
C6_FailedAcquireLeavesRecord ==
    /\ [][\A p \in Procs, tmo \in Timeouts :
            (AcquireReturn(p, tmo) /\ Undisturbed(p) /\ result'[p] = "false")
            => ReadRecord' = PreCall(p).rec]_vars
    /\ []( ( /\ \E q \in Procs : lock_held[q]
             /\ \E p \in Procs : pc[p] \in AcquirePcs
             /\ path # NoFile )
           => Parsable(content[path]) )

\* C7: acquire called by the process that holds the lease (lock_held, and
\* the record names it) returns true and leaves the record naming it, in
\* the locking mode and in the fallback mode.
C7_ReacquireBySelf ==
    [][\A p \in Procs, tmo \in Timeouts :
          ( /\ AcquireReturn(p, tmo)
            /\ lock_held[p]
            /\ PreCall(p).rec.instance_id = p )
          => (result'[p] = "true" /\ ReadRecord'.instance_id = p)]_vars

\* C8: a renew call by a process while the record names another process
\* leaves the record as it was; a renew call by the process the record
\* names rewrites expires to now + timeout.
C8_RenewOnlyByHolder ==
    [][\A p \in Procs, tmo \in Timeouts :
          (RenewReturn(p, tmo) /\ Undisturbed(p))
          => /\ NamesOther(PreCall(p).rec, p) => ReadRecord' = PreCall(p).rec
             /\ PreCall(p).rec.instance_id = p
                  => ( /\ ReadRecord'.instance_id = p
                       /\ ReadRecord'.expires - tmo \in PreCall(p).at..now )]_vars

\* C9: release clears the record iff the caller is the process the record
\* names: after the named holder's release the status reads unheld, and a
\* release by a process while the record names another leaves it unchanged.
C9_ReleaseOnlyByHolder ==
    [][\A p \in Procs :
          (ReleaseReturn(p) /\ Undisturbed(p))
          => /\ PreCall(p).rec.instance_id = p => ~check_lock_status'.locked
             /\ NamesOther(PreCall(p).rec, p) => ReadRecord' = PreCall(p).rec]_vars

\* C3: while current_signal holds a Signal, no step of a command handler or
\* of the auto scanner replaces it with a different Signal: the occupant
\* only ever changes to None, by cmd_clear (checked under SpecRegistry).
C3_OccupiedSlotNotReplaced ==
    [][\A p \in Procs :
          current_signal[p] # NoSignal
          => /\ current_signal'[p] \in {current_signal[p], NoSignal}
             /\ current_signal'[p] = NoSignal => cmd_clear(p)]_vars

\* the auto_scanner task of p is scheduling scans
PrimaryScheduling(p) ==
    /\ alive[p] /\ running[p] /\ is_primary_instance[p]
    /\ scanner[p] \in {"sleep", "scanning"}

\* the lease record names p and its lease has not expired
NamedUnexpired(p) ==
    /\ ReadRecord.instance_id = p
    /\ now <= ReadRecord.expires

\* this step is auto_scanner of p starting a scan
ScanStarts(p) == scanner[p] # "scanning" /\ scanner'[p] = "scanning"

\* C10: at any instant at most one process is scheduling scans as primary,
\* and the auto scanner of a process starts a scan only while the lease
\* record names that process with an unexpired lease (checked under
\* SpecBot).
C10_SingleScheduler ==
    /\ [](\A p, q \in Procs :
             PrimaryScheduling(p) /\ PrimaryScheduling(q) => p = q)
    /\ [][\A p \in Procs : ScanStarts(p) => NamedUnexpired(p)]_vars

\* q holds the lease validly: it believes so, the record names it and the
\* lease recorded has not expired
ValidHolder(q) == lock_held[q] /\ NamedUnexpired(q)

\* this step is the return of the acquire_lock call of lock_maintainer of p
ReacquireReturn(p) ==
    maintainer[p] = "reacquire" /\ maintainer'[p] # "reacquire" /\ alive'[p]

\* C11: when the reacquire attempt of lock_maintainer returns while another
\* process validly holds the lease, the process is left SECONDARY
\* (is_primary_instance = false, the maintainer has left its loop), and the
\* auto scanner of a process that is not primary starts no scan.
C11_DemotedWhenLeaseLost ==
    /\ [][\A p \in Procs :
            (ReacquireReturn(p) /\ \E q \in Procs \ {p} : ValidHolder(q))
            => (~is_primary_instance'[p] /\ maintainer'[p] = "done")]_vars
    /\ [][\A p \in Procs : ScanStarts(p) => is_primary_instance[p]]_vars

\* p is a live PRIMARY process whose setup_polling has completed
RunningPrimary(p) ==
    alive[p] /\ is_primary_instance[p] /\ running[p] /\ main[p] = "polling"

\* C12: while a process is PRIMARY and running, its lock_maintainer task is
\* alive (created, asleep, renewing or reacquiring), so that the lease goes
\* on being renewed
C12_RenewalTaskRuns ==
    \A p \in Procs :
        RunningPrimary(p) =>
            maintainer[p] \in {"created", "sleep", "renew", "reacquire"}

\* this step makes the running SECONDARY process p PRIMARY: the acquire_lock
\* call of the take_lock callback, or of lock_maintainer, has returned True
AcquiresLater(p) ==
    /\ running[p] /\ main[p] = "polling"
    /\ ~is_primary_instance[p] /\ is_primary_instance'[p]

\* the auto_scanner task of p exists and has not returned
ScannerRuns(p) ==
    scanner[p] \in {"created", "sleep", "scanning", "backoff"}

\* C13: a process that acquires the lease, at startup or later, has its
\* auto_scanner loop running from then on: when setup_polling completes as
\* PRIMARY, and at every later step that makes a running SECONDARY process
\* PRIMARY
C13_AcquirerSchedules ==
    [][\A p \in Procs :
          /\ (main[p] = "setup_welcome" /\ main'[p] = "polling"
                 /\ is_primary_instance'[p]) => ScannerRuns(p)'
          /\ AcquiresLater(p) => ScannerRuns(p)']_vars

\* this step starts an acquire attempt of setup_polling of p (line 133)
SetupAttemptStarts(p) ==
    /\ main[p] \in {"start", "setup_sleep"} /\ alive'[p]
    /\ main'[p] # "polling"
    /\ main'[p] # main[p] \/ attempt'[p] # attempt[p]

\* this step is a failed attempt of setup_polling of p going to sleep
SetupAttemptFails(p) ==
    main'[p] = "setup_sleep" /\ attempt'[p] = attempt[p] + 1

\* C14: setup_polling makes at most 15 acquire attempts, every wait after
\* a failed attempt is longer than the one before, no attempt follows a
\* success, and when all attempts have failed setup_polling still completes:
\* the process runs SECONDARY with neither auto_scanner nor lock_maintainer
\* started
C14_BoundedStartup ==
    [][\A p \in Procs :
          /\ SetupAttemptStarts(p) =>
                 attempt[p] < SetupAttempts /\ ~is_primary_instance[p]
          /\ (SetupAttemptFails(p) /\ attempt[p] > 0) =>
                 wait_time'[p] > wait_time[p]
          /\ (main[p] = "setup_sleep" /\ main'[p] = "polling") =>
                 /\ attempt[p] = SetupAttempts
                 /\ running'[p] /\ ~is_primary_instance'[p]
                 /\ scanner'[p] = "none" /\ maintainer'[p] = "none"]_vars

\* all the attempts of a process have failed and it is polling as SECONDARY
C14_Witness ==
    \E p \in Procs :
        /\ main[p] = "polling" /\ running[p] /\ ~is_primary_instance[p]
        /\ auto_scan_interval[p] = 0
        /\ scanner[p] = "none" /\ maintainer[p] = "none"

\* lines 1543-1631 of bot_handlers.py: the heading and the status line of the
\* message cmd_lockstatus sends (it never looks at the 'error' entry)
cmd_lockstatus ==
    IF check_lock_status.locked
    THEN [heading |-> "LOCK STATUS",
          status |-> IF check_lock_status.is_expired
                     THEN "EXPIRED" ELSE "VALID"]
    ELSE [heading |-> "NO ACTIVE LOCK", status |-> "Available: Yes"]

\* the lock file exists and its content cannot be parsed as a record
Unparsable == path # NoFile /\ ~Parsable(content[path])

\* C15: while the record is unparsable the lock status is reported as
\* unknown: cmd_lockstatus never presents the lease as not held and available
C15_UnparsableReportedUnknown ==
    Unparsable => cmd_lockstatus.heading # "NO ACTIVE LOCK"

\* C16: an exception raised in an iteration of auto_scanner never ends the
\* task: the task returns only at a test of the while condition that finds
\* the process not running or not PRIMARY, and after the backoff sleep that
\* follows an exception the loop resumes with that test
C16_ScannerSurvivesFailure ==
    [][\A p \in Procs :
          /\ (ScannerRuns(p) /\ scanner'[p] = "done") =>
                 ~(running[p] /\ is_primary_instance[p])
          /\ (scanner[p] = "backoff" /\ scanner'[p] # "backoff"
                 /\ alive'[p] /\ running[p] /\ is_primary_instance[p]) =>
                 scanner'[p] \in {"sleep", "scanning"}]_vars

\* an iteration of the auto_scanner of a running PRIMARY process has raised
\* and the task is in its backoff sleep
C16_Witness ==
    \E p \in Procs :
        /\ scanner[p] = "backoff" /\ running[p] /\ is_primary_instance[p]
        /\ main[p] = "polling"

\* result.confidence of the analysis of the k-th pair scanned
ConfidenceOf(k) == task_result[pairs_to_scan[k]]

\* the pairs scanned whose analysis gave a Signal reaching the threshold
Candidates ==
    {k \in 1..Len(pairs_to_scan) :
        /\ ConfidenceOf(k) \notin {NoResult, Raised}
        /\ ConfidenceOf(k) >= scan_threshold}

\* C17: a scan returns the candidate of the highest confidence among those
\* that reach the threshold, the earliest in the order of the pairs when
\* several have it, whatever the order in which the analyses of a batch
\* completed; it is the value the operator scan_active_pairs gives
C17_BestCandidate ==
    (scan_pc = "returned" /\ Candidates # {}) =>
        /\ \E k \in Candidates :
              /\ best_signal.pair = pairs_to_scan[k]
              /\ best_signal.confidence = ConfidenceOf(k)
              /\ \A j \in Candidates :
                    \/ ConfidenceOf(j) < ConfidenceOf(k)
                    \/ ConfidenceOf(j) = ConfidenceOf(k) /\ k <= j
        /\ best_signal =
              IF scan_threshold = min_confidence
              THEN scan_active_pairs(pairs_to_scan, task_result, "AUTO")
              ELSE scan_active_pairs_manual(pairs_to_scan, task_result,
                                            "MANUAL_FORCE")

\* a scan has returned the first of two candidates of the same, highest
\* confidence although the analysis of the second completed first
C17_Witness ==
    /\ scan_pc = "returned" /\ Len(pairs_to_scan) = 2
    /\ completed = <<2, 1>>
    /\ Candidates = {1, 2} /\ ConfidenceOf(1) = ConfidenceOf(2)
    /\ best_signal.pair = pairs_to_scan[1]

\* the pairs scanned whose analysis failed: it raised, or it caught its
\* exception and returned None
FailedPairs ==
    {pairs_to_scan[k] : k \in {j \in 1..Len(pairs_to_scan) :
                                  ConfidenceOf(j) \in {NoResult, Raised}}}

\* what the scan in progress returns when it is given the list `active`
ScanOf(active) ==
    IF scan_threshold = min_confidence
    THEN scan_active_pairs(active, task_result, "AUTO")
    ELSE scan_active_pairs_manual(active, task_result, "MANUAL_FORCE")

\* C18: the failure of the analysis of some pairs does not abort the scan
\* and does not change what the others yield: every batch is gathered and
\* the value returned is that of the same scan without the failed pairs
C18_FailuresIsolated ==
    (scan_pc = "returned" /\ pairs_to_scan # <<>>) =>
        /\ batch_start + batch_size > Len(pairs_to_scan)
        /\ \A F \in SUBSET FailedPairs :
              best_signal =
                  ScanOf(SelectSeq(pairs_to_scan, LAMBDA x : x \notin F))

\* a scan in which an analysis raised has returned the Signal of another
\* pair
C18_Witness ==
    /\ scan_pc = "returned"
    /\ \E k \in 1..Len(pairs_to_scan) : ConfidenceOf(k) = Raised
    /\ best_signal # NoSignal

\* what a scan returns when pairs are active and none of them yields a
\* candidate
NoCandidate ==
    scan_active_pairs(ALL_PAIRS, [x \in Pairs |-> NoResult], "AUTO")

\* C19: a scan that finds no pair active returns an outcome that differs
\* from the one of a scan that found no candidate
C19_NoActiveDistinguished ==
    (scan_pc = "returned" /\ pairs_to_scan = <<>>) =>
        best_signal # NoCandidate

\* the replies of /auto and /manual that name "no candidate" as the cause
NoCandidateReplies ==
    {"No strong signals found", "No signals found even with manual override"}

\* C20: a reply of /auto or /manual that reports no Signal names the cause:
\* it says that no active pair met the threshold only when the scan had
\* active pairs to analyse, also when the pairs stopped being active
\* between the check of the handler and the scan
C20_CauseIdentified ==
    \A p \in Procs :
        (handler[p] = "reply_text" /\ reply[p] \in NoCandidateReplies)
            => scanned[p] # <<>>

\* ---------------------------------------------------------------- C21
\* the AI confidence the blend of the returned Signal has used: the number
\* of the AI dict, 50 when the AI result or its confidence is absent
BlendedAI ==
    IF ai_analysis.confidence.kind = "number"
    THEN ai_analysis.confidence.number
    ELSE 50

\* C21: the confidence of every Signal an analysis returns lies within
\* [0, 100] (here 0..1000 tenths), and for a technical confidence and an AI
\* confidence within [0, 100] it is tech * 0.7 + ai * 0.3, with ai = 50 when
\* the AI result is absent
C21_ConfidenceInRange ==
    (analysis_pc = "returned" /\ analysis_result # None) =>
        /\ analysis_result.confidence \in 0..1000
        /\ (technicals.confidence \in 0..100 /\ BlendedAI \in 0..100) =>
              analysis_result.confidence
                  = technicals.confidence * 7 + BlendedAI * 3

\* a Signal built without AI result from a technical confidence of 100
C21_Witness ==
    /\ analysis_pc = "returned"
    /\ analysis_result # None
    /\ ai_analysis = EmptyDict
    /\ technicals.confidence = 100
    /\ analysis_result.confidence = 850

\* ---------------------------------------------------------------- C22
\* the arguments of the calculate_stop_loss_take_profit call of the
\* analysis that returned a Signal (lines 2098-2112)
CallEntry == technicals.price
CallDirection == analysis_result.direction
CallStopLossPips == settings.stop_loss_pips
CallTakeProfitPips ==
    IF analysed_pair = "XAU/USD"
    THEN settings.xau_take_profit_pips
    ELSE settings.take_profit_pips

\* the reference: scale 100 for pairs containing JPY and for XAU/USD, 10000
\* otherwise; prices in millionths, results rounded to units of 0.00001
ReferenceScale ==
    IF "JPY" \in Words(analysed_pair) \/ analysed_pair = "XAU/USD"
    THEN 100
    ELSE 10000
ReferenceStopLoss ==
    IF "BUY" \in Words(CallDirection)
    THEN round(CallEntry - (CallStopLossPips * 1000000) \div ReferenceScale,
               1, 10)
    ELSE IF "SELL" \in Words(CallDirection)
         THEN round(CallEntry
                        + (CallStopLossPips * 1000000) \div ReferenceScale,
                    1, 10)
         ELSE round(CallEntry, 995, 10000)
ReferenceTakeProfit ==
    IF "BUY" \in Words(CallDirection)
    THEN round(CallEntry
                   + (CallTakeProfitPips * 1000000) \div ReferenceScale,
               1, 10)
    ELSE IF "SELL" \in Words(CallDirection)
         THEN round(CallEntry
                        - (CallTakeProfitPips * 1000000) \div ReferenceScale,
                    1, 10)
         ELSE round(CallEntry, 1005, 10000)

\* C22: the stop loss and take profit of every Signal an analysis returns
\* are those of the reference (scale 100 for JPY pairs and XAU/USD, 10000
\* otherwise; BUY: entry - sl/scale and entry + tp/scale; SELL: mirrored;
\* any other direction: entry * 0.995 and entry * 1.005; rounded to 5
\* decimals); 1.10000 BUY with 5 and 15 pips at scale 10000 gives 1.09950
\* and 1.10150, 151.200 SELL with 5 and 15 pips at scale 100 gives 151.250
\* and 151.050
C22_StopLossTakeProfit ==
    (analysis_pc = "returned" /\ analysis_result # None) =>
        /\ analysis_result.stop_loss = ReferenceStopLoss
        /\ analysis_result.take_profit = ReferenceTakeProfit
        /\ ( /\ CallEntry = 1100000 /\ "BUY" \in Words(CallDirection)
             /\ CallStopLossPips = 5 /\ CallTakeProfitPips = 15
             /\ analysed_pair = "EUR/USD" ) =>
                /\ analysis_result.stop_loss = 109950
                /\ analysis_result.take_profit = 110150
        /\ ( /\ CallEntry = 151200000 /\ "SELL" \in Words(CallDirection)
             /\ CallStopLossPips = 5 /\ CallTakeProfitPips = 15
             /\ analysed_pair = "USD/JPY" ) =>
                /\ analysis_result.stop_loss = 15125000
                /\ analysis_result.take_profit = 15105000

\* the second worked example: USD/JPY sold at 151.200 with 5 and 15 pips
C22_Witness ==
    /\ analysis_pc = "returned"
    /\ analysed_pair = "USD/JPY"
    /\ settings = DefaultSettings
    /\ technicals.price = 151200000
    /\ analysis_result.direction = "SELL"
    /\ analysis_result.stop_loss = 15125000
    /\ analysis_result.take_profit = 15105000

\* ---------------------------------------------------------------- C23
\* a scan is working on a batch
InBatch == scan_pc \in {"gather", "sleep"}

\* C23: a scan cuts the list of pairs into consecutive batches of 3 in the
\* order of the list: the first batch starts at the first pair, each next
\* batch starts right behind the previous one, only a batch that reaches
\* the end of the list is smaller than 3, the results of a batch are
\* handed over in the order of the list, and the scan ends only after the
\* batch that reaches the end, so every pair is in exactly one batch;
\* four pairs give the batches {1, 2, 3} and {4}
C23_BatchPartition ==
    /\ [](InBatch =>
            /\ batch_start \in 1..Len(pairs_to_scan)
            /\ (batch_start - 1) % 3 = 0
            /\ Batch = {k \in 1..Len(pairs_to_scan) :
                           (k - 1) \div 3 = (batch_start - 1) \div 3}
            /\ Cardinality(Batch) = 3
                  \/ batch_start + Cardinality(Batch) - 1
                         = Len(pairs_to_scan)
            /\ \A n \in 1..Len(completed) : completed[n] \in Batch
            /\ (Len(pairs_to_scan) = 4 /\ batch_start = 1)
                  => Batch = {1, 2, 3}
            /\ (Len(pairs_to_scan) = 4 /\ batch_start = 4) => Batch = {4}
            /\ scan_pc = "sleep" =>
                  gather(completed)
                      = [n \in 1..Cardinality(Batch) |-> batch_start + n - 1])
    /\ [][(InBatch /\ batch_start' # batch_start) =>
            \/ batch_start' = batch_start + 3 /\ Cardinality(Batch) = 3
            \/ scan_pc' = "idle"]_vars
    /\ [][(scan_pc = "idle" /\ scan_pc' = "gather") => batch_start' = 1]_vars
    /\ [][(InBatch /\ scan_pc' = "returned") =>
            batch_start + Cardinality(Batch) - 1 = Len(pairs_to_scan)]_vars

\* the second batch of a scan of four pairs has been gathered
C23_Witness ==
    /\ scan_pc = "sleep"
    /\ Len(pairs_to_scan) = 4
    /\ batch_start = 4
    /\ Batch = {4}
    /\ completed = <<4>>

\* ---------------------------------------------------------------- C24
\* the analysis that returned had technicals at or above the baseline
PassedBaseline ==
    /\ analysis_pc = "returned"
    /\ technicals # NoTechnicals
    /\ technicals.confidence >= baseline_confidence

\* the AI scorer gave no usable result: none is configured (no credential),
\* the request failed, or the response has no JSON, undecodable JSON, or a
\* JSON object whose confidence is missing or is not a number
AIFailed ==
    \/ ai_analyzer = "None"
    \/ response.kind \in {"error", "no_json", "bad_json"}
    \/ response.kind = "json" /\ response.confidence.kind # "number"

LowerManualThresholds == 20..(min_confidence - 1)

C26_ReturnedSignalStored ==
    [][\A p \in Procs, signal \in AutoScans \ {NoSignal} :
          (auto_scanner_scanned(p, signal) /\ current_signal[p] = NoSignal)
              => current_signal'[p] = signal]_vars

\* ---------------------------------------------------------------- C27
\* a tick of the auto scanner of p would find a scan due: the registry is
\* empty and auto_scan_interval has elapsed since last_auto_scan, or no
\* scan has run yet
Due(p) ==
    /\ running[p] /\ is_primary_instance[p]
    /\ current_signal[p] = NoSignal
    /\ \/ last_auto_scan[p] = Never
       \/ now - last_auto_scan[p] >= auto_scan_interval[p]

BatchCompleted ==
    \A k \in Batch : \E n \in 1..Len(completed) : completed[n] = k

\* C28: the batches of a scan are processed one after the other: only
\* analyses of the batch in progress complete; the gather of a batch is
\* left only when every analysis of the batch has completed, whether it
\* failed or not, and then the scan sleeps; the analyses of the next batch
\* are created only by the step that ends that sleep
C28_BatchesSequential ==
    /\ [](scan_pc = "gather" =>
            \A n \in 1..Len(completed) : completed[n] \in Batch)
    /\ [][(scan_pc = "gather" /\ scan_pc' # "gather") =>
            BatchCompleted /\ scan_pc' = "sleep"]_vars
    /\ [][(batch_start >= 1 /\ batch_start' > batch_start) =>
            /\ scan_pc = "sleep" /\ BatchCompleted
            /\ scan_pc' = "gather" /\ completed' = <<>>]_vars
    /\ [][(scan_pc = "gather" /\ scan_pc' = "gather") =>
            \A n \in 1..Len(completed) : completed'[n] = completed[n]]_vars

\* the analyses of the second batch have been created after a first batch
\* in which one analysis raised and a sibling gave a Signal
C28_Witness ==
    /\ scan_pc = "gather"
    /\ batch_start = 1 + batch_size
    /\ task_result[pairs_to_scan[1]] = Raised
    /\ task_result[pairs_to_scan[2]] \in Confidences
    /\ completed = <<>>

C30_BaselineGatesAI ==
    /\ []((technicals = NoTechnicals \/ technicals.confidence < 30) =>
            /\ ai_calls = 0
            /\ analysis_pc # "ai"
            /\ analysis_result = None)
    /\ [](ai_calls \in {0, 1})
    /\ [][ai_calls' # ai_calls =>
            /\ analysis_pc = "technicals" /\ analysis_pc' = "ai"
            /\ technicals' # NoTechnicals
            /\ technicals'.confidence >= 30]_vars

\* an analysis with an AI scorer configured has returned None on technicals
\* of confidence 20 without invoking it
C30_Witness ==
    /\ analysis_pc = "returned"
    /\ ai_analyzer = "AIAnalyzer"
    /\ technicals # NoTechnicals
    /\ technicals.confidence = 20
    /\ ai_calls = 0
    /\ analysis_result = None

\* ---------------------------------------------------------------- C31
\* C31: the direction of a returned Signal is the direction of the AI
\* result when an AI result is there and names a direction other than
\* NEUTRAL; without AI scorer, without a direction in the AI result, and
\* with the AI direction NEUTRAL (which a failed request and an undecodable
\* answer give too) it is the direction of the technicals
C31_Direction ==
    (analysis_pc = "returned" /\ analysis_result # None) =>
        /\ (ai_analyzer = "None" =>
               analysis_result.direction = technicals.direction)
        /\ (ai_analyzer = "AIAnalyzer" /\ ai_analysis.signal = "" =>
               analysis_result.direction = technicals.direction)
        /\ (ai_analyzer = "AIAnalyzer" /\ ai_analysis.signal = "NEUTRAL" =>
               analysis_result.direction = technicals.direction)
        /\ (ai_analyzer = "AIAnalyzer"
              /\ ai_analysis.signal \notin {"", "NEUTRAL"} =>
               analysis_result.direction = ai_analysis.signal)
        /\ (response.kind \in {"error", "no_json", "bad_json"} =>
               analysis_result.direction = technicals.direction)

\* the AI result says BUY against technicals that say SELL, and the Signal
\* is a BUY
C31_Witness ==
    /\ analysis_pc = "returned"
    /\ analysis_result # None
    /\ ai_analyzer = "AIAnalyzer"
    /\ ai_analysis.signal = "BUY"
    /\ technicals.direction = "SELL"
    /\ analysis_result.direction = "BUY"

\* ---------------------------------------------------------------- C32
\* the steps that execute `self.current_signal = signal`: the end of the
\* scan auto_scanner awaited, and the end of the scan or analysis a handler
\* awaited
Stores(p) ==
    \/ scanner[p] = "scanning" /\ scanner'[p] # "scanning"
    \/ /\ handler[p] \in {"cmd_auto", "cmd_manual", "cmd_analyze", "cmd_fast"}
       /\ handler'[p] # handler[p]

C33_MutexNotHeldAcrossAwait ==
    /\ [](\A p \in Procs :
            /\ scanner[p] \notin InWith => signal_lock[p] # "auto_scanner"
            /\ handler[p] \notin InWith => signal_lock[p] # "handler")
    /\ [][\A p \in Procs :
            (signal_lock[p] # "none" /\ signal_lock'[p] # "none"
               /\ bot_vars' # bot_vars)
                => /\ signal_lock'[p] = signal_lock[p]
                   /\ scanner_assign(p) \/ handler_assign(p)]_vars

\* the scheduler awaits send_admin for the Signal it has just assigned, and
\* the lock is free
C33_Witness ==
    \E p \in Procs :
        /\ scanner[p] = "send_admin"
        /\ current_signal[p] # NoSignal
        /\ current_signal[p].signal_type = "AUTO"
        /\ entry_time[p] = now
        /\ signal_lock[p] = "none"

\* ---------------------------------------------------------------- C34
\* the Signal in the registry was stored after midnight, and every task
\* that stores and counts has counted (no handler is between the store and
\* its count)
CountedAfterMidnight(p) ==
    /\ current_signal[p] # NoSignal
    /\ entry_time[p] >= Midnight
    /\ handler[p] = "idle"

\* C34: signals_today is set to zero when local time crosses midnight and
\* at no other time, so that a Signal counted after midnight stays counted
\* for the rest of the day: while the registry holds a Signal that was
\* stored and counted after midnight, the counter is at least 1
C34_CountedUntilNextBoundary ==
    \A p \in Procs : CountedAfterMidnight(p) => signals_today[p] >= 1

\* ---------------------------------------------------------------- C35
\* C35: a process that believes it holds the lease (lock_held, or
\* is_primary_instance) is the holder the shared record names, and the
\* record can be read and parsed; stated for a process that is outside the
\* methods of its instance manager, so that what its own acquire, renew or
\* release is in the middle of does not count
C35_BelieverIsNamedHolder ==
    \A p \in Procs :
        ((lock_held[p] \/ is_primary_instance[p]) /\ pc[p] = "idle") =>
            /\ Parsable(ReadRecord)
            /\ ReadRecord.instance_id = p

\* ---------------------------------------------------------------- C36
\* the call of p is at portalocker.lock(self.lock_file, LOCK_EX) of the
\* forced acquisition (line 106) and another descriptor holds the flock of
\* the file: the call goes on only after that lock has been given up
WaitsForFlock(p) ==
    pc[p] = "acq_force_opened" /\ ~FlockFree(lock_file[p])

\* C36: a call of acquire_lock returns after a bounded number of steps of
\* its own and never waits for another process to act, also when the
\* record is stale while a live process holds the exclusive file lock: no
\* process inside acquire_lock is waiting for the file lock of another
C36_AcquireNeverWaits == \A p \in Procs : ~WaitsForFlock(p)

\* ---------------------------------------------------------------- C37
\* C37: a Signal built with positive pips and a positive entry price has
\* stop_loss < entry_price < take_profit when its direction contains BUY and
\* take_profit < entry_price < stop_loss when it contains SELL; the Signal
\* for XAU/USD carries the xau_take_profit_pips of the settings and its
\* take-profit price lies that many pips from the entry, every other Signal
\* carries take_profit_pips
C37_PricesOrdered ==
    (/\ analysis_pc = "returned" /\ analysis_result # None
     /\ settings.stop_loss_pips > 0
     /\ analysis_result.take_profit_pips > 0
     /\ technicals.price > 0) =>
        LET s == analysis_result
            \* one pip in units of 0.00001
            pip == IF analysed_pair = "EUR/USD" THEN 10 ELSE 1000
            \* the entry price before rounding, in units of 0.000001
            distance == IF s.take_profit * 10 >= technicals.price
                        THEN s.take_profit * 10 - technicals.price
                        ELSE technicals.price - s.take_profit * 10
        IN  /\ Contains(s.direction, "BUY") =>
                 s.stop_loss < s.entry_price /\ s.entry_price < s.take_profit
            /\ Contains(s.direction, "SELL") =>
                 s.take_profit < s.entry_price /\ s.entry_price < s.stop_loss
            /\ s.stop_loss_pips = settings.stop_loss_pips
            /\ s.take_profit_pips =
                  IF analysed_pair = "XAU/USD"
                  THEN settings.xau_take_profit_pips
                  ELSE settings.take_profit_pips
            /\ (Contains(s.direction, "BUY") \/ Contains(s.direction, "SELL"))
                  => \* within half a unit of 0.00001 of the pips
                     /\ distance - s.take_profit_pips * pip * 10 <= 5
                     /\ s.take_profit_pips * pip * 10 - distance <= 5

\* a SELL Signal for XAU/USD under settings whose take-profit pips for gold
\* differ from the general ones
C37_Witness ==
    /\ analysis_pc = "returned"
    /\ analysis_result # None
    /\ analysed_pair = "XAU/USD"
    /\ Contains(analysis_result.direction, "SELL")
    /\ settings.xau_take_profit_pips # settings.take_profit_pips
    /\ analysis_result.take_profit_pips = settings.xau_take_profit_pips
    /\ analysis_result.take_profit < analysis_result.entry_price
    /\ analysis_result.entry_price < analysis_result.stop_loss

\* C38: a stop of a process never removes a lease record that names another
\* process: whenever a step of stop's release_lock removes the lock file,
\* the record in it does not name another process (checked under SpecBot).
C38_StopRemovesOnlyOwnRecord ==
    [][\A p \in Procs :
          (stop_release(p) /\ path # NoFile /\ path' = NoFile)
          => ~NamesOther(ReadRecord, p)]_vars

\* a number from 20 to 100
InRange(x) == x.kind = "num" /\ 20 <= x.v /\ x.v <= 100

\* C39: a /setmanualthreshold whose argument is not a number from 20 to 100
\* leaves the stored manual_confidence_threshold as it was; in every state
\* reached from the default by /setmanualthreshold and /resetparams the
\* stored threshold is a number from 20 to 100 and the settings history has
\* at most 50 entries (checked under SpecSettings).
C39_ThresholdWithinRange ==
    /\ [](\A p \in Procs :
            /\ InRange(manual_threshold[p])
            /\ settings_history[p] <= MaxHistory)
    /\ [][\A p \in Procs, word \in Arguments, saved \in BOOLEAN :
            (cmd_setmanualthreshold(p, <<word>>, saved)
             /\ ~InRange(float(word)))
            => UNCHANGED manual_threshold]_vars

====
